---- MODULE Spec2Model ----
(***************************************************************************)
(* A model of the stl-kit containers: the doubly-linked LinkedList          *)
(* (src/structures/linked-list.ts) over ListNode cells (core/list-node.ts), *)
(* the Stack and Queue built on the same cells, and the array-backed Heap   *)
(* and PriorityQueue.                                                       *)
(*                                                                         *)
(* A container object is a record of its private fields; the ListNode      *)
(* objects live in a store indexed by address.  Every method is an operator *)
(* from the machine state to a result [m, ret, threw]: the machine state    *)
(* when the call ends, the value returned, and the kind of exception thrown *)
(* ("none" when the call returns).  A statement that dereferences null      *)
(* throws TypeError at that statement, keeping the assignments made before. *)
(***************************************************************************)
EXTENDS Integers, Sequences, FiniteSets, TLC

VARIABLES nodes, lists, last, after, ghost, arrays, heaps

vars == <<nodes, lists, last, after, ghost, arrays, heaps>>

(***************************************************************************)
(* Bounds of the model.                                                     *)
(***************************************************************************)
MaxVal == 2
MaxNodes == 3
\* how many further calls the model follows once a call has left a list malformed
MaxAfter == 2

Vals == 1..MaxVal
Addr == 1..MaxNodes
Lists == {1, 2}

\* null (a link that points nowhere, a value voided by cleanup) and undefined
Null == 0

Range(s) == {s[k] : k \in 1..Len(s)}

Min(S) == CHOOSE x \in S : \A y \in S : x <= y

(***************************************************************************)
(* ListNode                                                                 *)
(***************************************************************************)
ListNode(value) == [val |-> value, prev |-> Null, next |-> Null]

\* node.cleanup(), called on the node
cleanup(m, n) == [m EXCEPT !.nodes[n] = [val |-> Null, prev |-> Null, next |-> Null]]

(***************************************************************************)
(* Results of a call                                                        *)
(***************************************************************************)
Ok(m, ret) == [m |-> m, ret |-> ret, threw |-> "none"]

Throw(m, kind) == [m |-> m, ret |-> Null, threw |-> kind]

\* the node store is full: the call is outside the model's bound
Oom(m) == [m |-> [m EXCEPT !.oom = TRUE], ret |-> Null, threw |-> "none"]

(***************************************************************************)
(* The store: which nodes a container can still reach, and the address a    *)
(* new ListNode gets.  A node no container reaches through head, tail, prev *)
(* and next is garbage.                                                     *)
(***************************************************************************)
RECURSIVE Walk(_, _, _, _)
Walk(ns, n, dir, seq) ==
  IF n = Null \/ n \in Range(seq) THEN seq
  ELSE Walk(ns, IF dir = "next" THEN ns[n].next ELSE ns[n].prev, dir, Append(seq, n))

RECURSIVE Close(_, _)
Close(ns, seq) ==
  LET out(n) == n # Null /\ n \notin Range(seq)
      open == {k \in 1..Len(seq) : out(ns[seq[k]].prev) \/ out(ns[seq[k]].next)}
  IN IF open = {} THEN seq
     ELSE LET n == seq[Min(open)]
          IN Close(ns, Append(seq, IF out(ns[n].prev) THEN ns[n].prev ELSE ns[n].next))

\* the reachable nodes, in the order a traversal from the containers meets them
Order(m) ==
  Close(m.nodes,
    Walk(m.nodes, m.lists[2].tail, "prev",
      Walk(m.nodes, m.lists[2].head, "next",
        Walk(m.nodes, m.lists[1].tail, "prev",
          Walk(m.nodes, m.lists[1].head, "next", <<>>)))))

\* the address of a new node: the first one no container reaches
Alloc(m) ==
  LET free == DOMAIN m.nodes \ Range(Order(m))
  IN IF free = {} THEN Null ELSE Min(free)

\* Addresses are not observable: the reachable nodes are renumbered in
\* traversal order and the garbage is dropped.
Normalize(m) ==
  LET ord == Order(m)
      ren(n) == IF n = Null THEN Null ELSE CHOOSE k \in 1..Len(ord) : ord[k] = n
      root(n) == IF n \in Range(ord) THEN ren(n) ELSE Null
  IN [nodes |-> [k \in DOMAIN m.nodes |->
                   IF k <= Len(ord)
                   THEN [val |-> m.nodes[ord[k]].val,
                         prev |-> ren(m.nodes[ord[k]].prev),
                         next |-> ren(m.nodes[ord[k]].next)]
                   ELSE [val |-> Null, prev |-> Null, next |-> Null]],
      lists |-> [i \in Lists |->
                   [m.lists[i] EXCEPT !.head = root(@), !.tail = root(@)]],
      oom |-> m.oom]

(***************************************************************************)
(* LinkedList: pushFront, pushBack, popFront, popBack                      *)
(***************************************************************************)
isEmpty(m, i) == m.lists[i].length = 0

pushFront(m, i, value) ==
  LET a == Alloc(m)
      m1 == [m EXCEPT !.nodes[a] = ListNode(value)]
      h == m.lists[i].head
  IN IF a = Null THEN Oom(m)
     ELSE IF isEmpty(m, i)
     THEN Ok([m1 EXCEPT !.lists[i].head = a, !.lists[i].tail = a,
                        !.lists[i].length = @ + 1], Null)
     ELSE IF h = Null THEN Throw(m1, "TypeError")
     ELSE Ok([m1 EXCEPT !.nodes[h].prev = a, !.nodes[a].next = h,
                        !.lists[i].head = a, !.lists[i].length = @ + 1], Null)

pushBack(m, i, value) ==
  LET a == Alloc(m)
      m1 == [m EXCEPT !.nodes[a] = ListNode(value)]
      t == m.lists[i].tail
  IN IF a = Null THEN Oom(m)
     ELSE IF isEmpty(m, i)
     THEN Ok([m1 EXCEPT !.lists[i].head = a, !.lists[i].tail = a,
                        !.lists[i].length = @ + 1], Null)
     ELSE IF t = Null THEN Throw([m1 EXCEPT !.nodes[a].prev = t], "TypeError")
     ELSE Ok([m1 EXCEPT !.nodes[a].prev = t, !.nodes[t].next = a,
                        !.lists[i].tail = a, !.lists[i].length = @ + 1], Null)

popFront(m, i) ==
  LET L == m.lists[i]
      peek == L.head
      peekVal == m.nodes[peek].val
      nh == m.nodes[peek].next
      m1 == [m EXCEPT !.lists[i].head = nh]
  IN IF isEmpty(m, i) THEN Throw(m, "Error")
     ELSE IF peek = Null THEN Throw(m, "TypeError")
     ELSE IF L.length = 1
     THEN Ok([cleanup([m EXCEPT !.lists[i].head = Null, !.lists[i].tail = Null], peek)
                EXCEPT !.lists[i].length = @ - 1], peekVal)
     ELSE IF nh = Null THEN Throw(m1, "TypeError")
     ELSE Ok([cleanup([m1 EXCEPT !.nodes[nh].prev = Null], peek)
                EXCEPT !.lists[i].length = @ - 1], peekVal)

popBack(m, i) ==
  LET L == m.lists[i]
      peek == L.tail
      peekVal == m.nodes[peek].val
      prevNode == m.nodes[peek].prev
  IN IF isEmpty(m, i) THEN Throw(m, "Error")
     ELSE IF peek = Null THEN Throw(m, "TypeError")
     ELSE IF L.length = 1
     THEN Ok([cleanup([m EXCEPT !.lists[i].head = Null, !.lists[i].tail = Null], peek)
                EXCEPT !.lists[i].length = @ - 1], peekVal)
     ELSE IF prevNode = Null THEN Throw(m, "TypeError")
     ELSE Ok([cleanup([m EXCEPT !.nodes[prevNode].next = Null,
                                !.lists[i].tail = prevNode], peek)
                EXCEPT !.lists[i].length = @ - 1], peekVal)

(***************************************************************************)
(* LinkedList: insertAt, eraseAt                                            *)
(***************************************************************************)
\* the node `steps` links after n, or null when the chain ends first
RECURSIVE Advance(_, _, _)
Advance(m, n, steps) ==
  IF steps <= 0 \/ n = Null THEN n ELSE Advance(m, m.nodes[n].next, steps - 1)

insertAt(m, i, val, index) ==
  LET L == m.lists[i]
      curr == Advance(m, L.head, index - 1)
      a == Alloc(m)
      m1 == [m EXCEPT !.nodes[a] = ListNode(val)]
      nextNode == m.nodes[curr].next
      m2 == [m1 EXCEPT !.nodes[a].prev = curr, !.nodes[a].next = nextNode,
                       !.nodes[curr].next = a]
  IN IF index < 0 \/ index > L.length THEN Throw(m, "RangeError")
     ELSE IF index = 0 THEN pushFront(m, i, val)
     ELSE IF index = L.length THEN pushBack(m, i, val)
     ELSE IF a = Null THEN Oom(m)
     ELSE IF curr = Null THEN Throw(m1, "TypeError")
     ELSE IF nextNode = Null THEN Throw(m2, "TypeError")
     ELSE Ok([m2 EXCEPT !.nodes[nextNode].prev = a, !.lists[i].length = @ + 1], Null)

\* #unlink takes `cleanup` off the node by destructuring and calls it as a
\* plain function: in a class body (strict mode) its `this` is undefined, so
\* its first statement, this.prev = null, throws TypeError.  The links around
\* the node are already rewritten; #length-- and the return are not reached.
unlink(m, i, node) ==
  LET prev == m.nodes[node].prev
      next == m.nodes[node].next
      m1 == IF prev # Null THEN [m EXCEPT !.nodes[prev].next = next]
                           ELSE [m EXCEPT !.lists[i].head = next]
      m2 == IF next # Null THEN [m1 EXCEPT !.nodes[next].prev = prev]
                           ELSE [m1 EXCEPT !.lists[i].tail = prev]
  IN Throw(m2, "TypeError")

\* eraseAt, were it to test the index before it tests for the empty list
eraseAtRangeFirst(m, i, index) ==
  LET L == m.lists[i]
      curr == Advance(m, L.head, index)
  IN IF index < 0 \/ index >= L.length THEN Throw(m, "RangeError")
     ELSE IF isEmpty(m, i) THEN Throw(m, "Error")
     ELSE IF index = 0 THEN popFront(m, i)
     ELSE IF index = L.length - 1 THEN popBack(m, i)
     ELSE IF curr = Null THEN Throw(m, "Error")
     ELSE unlink(m, i, curr)

eraseAt(m, i, index) ==
  LET L == m.lists[i]
      curr == Advance(m, L.head, index)
  IN IF isEmpty(m, i) THEN Throw(m, "Error")
     ELSE IF index < 0 \/ index >= L.length THEN Throw(m, "RangeError")
     ELSE IF index = 0 THEN popFront(m, i)
     ELSE IF index = L.length - 1 THEN popBack(m, i)
     ELSE IF curr = Null THEN Throw(m, "Error")
     ELSE unlink(m, i, curr)

(***************************************************************************)
(* Caller-supplied functions.  A factory is absent ("none") or a function   *)
(* of one argument that throws on the argument Null; a compareFn is omitted *)
(* ("default": the method's own default), not a function ("notfn"), or a    *)
(* function that behaves as the default but throws when its first argument  *)
(* is cmp.bad ("throws").                                                   *)
(***************************************************************************)
Factories == {"none", "succ"}

factoryCall(f, arg) ==
  IF arg = Null THEN [threw |-> TRUE, val |-> Null]
  ELSE [threw |-> FALSE, val |-> (arg % MaxVal) + 1]

\* remove's default compareFn: (a, b) => a === b
removeCompare(cmp, a, b) ==
  IF cmp.kind = "throws" /\ a = cmp.bad THEN [threw |-> TRUE, val |-> FALSE]
  ELSE IF cmp.kind = "less" THEN [threw |-> FALSE, val |-> (a < b)]
  ELSE [threw |-> FALSE, val |-> (a = b)]

\* merge's default compareFn: (a, b) => (a < b ? -1 : a > b ? 1 : 0); the
\* compareFn arguments (a, b) => b - a ("desc"), () => -1 ("neg") and
\* () => 0 ("zero"); and one that throws on cmp.bad
mergeCompare(cmp, a, b) ==
  IF cmp.kind = "throws" /\ a = cmp.bad THEN [threw |-> TRUE, val |-> 0]
  ELSE IF cmp.kind = "desc" THEN [threw |-> FALSE, val |-> b - a]
  ELSE IF cmp.kind = "neg" THEN [threw |-> FALSE, val |-> -1]
  ELSE IF cmp.kind = "zero" THEN [threw |-> FALSE, val |-> 0]
  ELSE [threw |-> FALSE, val |-> IF a < b THEN -1 ELSE IF a > b THEN 1 ELSE 0]

(***************************************************************************)
(* LinkedList: emplaceFront, emplaceBack, emplaceAt                         *)
(***************************************************************************)
emplaceFront(m, i, arg) ==
  LET made == factoryCall(m.lists[i].factory, arg)
  IN IF m.lists[i].factory = "none" THEN Throw(m, "Error")
     ELSE IF made.threw THEN Throw(m, "Thrown")
     ELSE pushFront(m, i, made.val)

emplaceBack(m, i, arg) ==
  LET made == factoryCall(m.lists[i].factory, arg)
  IN IF m.lists[i].factory = "none" THEN Throw(m, "Error")
     ELSE IF made.threw THEN Throw(m, "Thrown")
     ELSE pushBack(m, i, made.val)

emplaceAt(m, i, index, arg) ==
  LET made == factoryCall(m.lists[i].factory, arg)
  IN IF m.lists[i].factory = "none" THEN Throw(m, "Error")
     ELSE IF made.threw THEN Throw(m, "Thrown")
     ELSE insertAt(m, i, made.val, index)

(***************************************************************************)
(* LinkedList: clear, toArray, assign, reverse                              *)
(***************************************************************************)
RECURSIVE clearLoop(_, _)
clearLoop(m, curr) ==
  IF curr = Null THEN m ELSE clearLoop(cleanup(m, curr), m.nodes[curr].next)

\* clear, were it to void the nodes and keep #length
clearKeepLength(m, i) ==
  IF isEmpty(m, i) THEN Ok(m, Null)
  ELSE Ok([clearLoop(m, m.lists[i].head)
             EXCEPT !.lists[i].head = Null, !.lists[i].tail = Null], Null)

clear(m, i) ==
  IF isEmpty(m, i) THEN Ok(m, Null)
  ELSE Ok([clearLoop(m, m.lists[i].head)
             EXCEPT !.lists[i].head = Null, !.lists[i].tail = Null,
                    !.lists[i].length = 0], Null)

(***************************************************************************)
(* The accessors front and back: `list.front`, `list.front = val`,          *)
(* `list.back`, `list.back = val`.  this.#head!.val on a null #head is a    *)
(* TypeError.                                                               *)
(***************************************************************************)
\* get front, were it to answer undefined on a list with no head
getFrontUndefined(m, i) ==
  IF m.lists[i].head = Null THEN Ok(m, Null)
  ELSE Ok(m, m.nodes[m.lists[i].head].val)

getFront(m, i) ==
  IF isEmpty(m, i) THEN Throw(m, "Error")
  ELSE IF m.lists[i].head = Null THEN Throw(m, "TypeError")
  ELSE Ok(m, m.nodes[m.lists[i].head].val)

setFront(m, i, val) ==
  IF isEmpty(m, i) THEN Throw(m, "Error")
  ELSE IF m.lists[i].head = Null THEN Throw(m, "TypeError")
  ELSE Ok([m EXCEPT !.nodes[m.lists[i].head].val = val], Null)

getBack(m, i) ==
  IF isEmpty(m, i) THEN Throw(m, "Error")
  ELSE IF m.lists[i].tail = Null THEN Throw(m, "TypeError")
  ELSE Ok(m, m.nodes[m.lists[i].tail].val)

setBack(m, i, val) ==
  IF isEmpty(m, i) THEN Throw(m, "Error")
  ELSE IF m.lists[i].tail = Null THEN Throw(m, "TypeError")
  ELSE Ok([m EXCEPT !.nodes[m.lists[i].tail].val = val], Null)

\* [Symbol.iterator]: the values met from #head along next
RECURSIVE iterate(_, _)
iterate(m, current) ==
  IF current = Null THEN <<>>
  ELSE <<m.nodes[current].val>> \o iterate(m, m.nodes[current].next)

toArray(m, i) == iterate(m, m.lists[i].head)

\* rbegin: the values met from #tail along prev
RECURSIVE riterate(_, _)
riterate(m, current) ==
  IF current = Null THEN <<>>
  ELSE <<m.nodes[current].val>> \o riterate(m, m.nodes[current].prev)

rbegin(m, i) == riterate(m, m.lists[i].tail)

\* next(), were the body to end at its second step
iteratorNextOnce(m, it) ==
  LET c == IF it.at = "start"
           THEN IF it.dir = "next" THEN m.lists[it.list].head ELSE m.lists[it.list].tail
           ELSE Null
  IN IF c = Null
     THEN [it |-> [it EXCEPT !.at = "done", !.current = Null], done |-> TRUE, value |-> Null]
     ELSE [it |-> [it EXCEPT !.at = "yield", !.current = c], done |-> FALSE,
           value |-> m.nodes[c].val]

\* An iterator object of [Symbol.iterator] (dir "next", from #head) or of
\* rbegin / reversed (dir "prev", from #tail): a suspended generator.  Its
\* body has not run before the first next() ("start"); after a yield it
\* holds the node it stands on in `current` ("yield"); then it is "done".
\* next() resumes the body in the store as it is at that moment.
iteratorNext(m, it) ==
  LET c == CASE it.at = "start" ->
                  IF it.dir = "next" THEN m.lists[it.list].head ELSE m.lists[it.list].tail
             [] it.at = "yield" ->
                  IF it.dir = "next" THEN m.nodes[it.current].next
                  ELSE m.nodes[it.current].prev
             [] OTHER -> Null
  IN IF c = Null
     THEN [it |-> [it EXCEPT !.at = "done", !.current = Null], done |-> TRUE, value |-> Null]
     ELSE [it |-> [it EXCEPT !.at = "yield", !.current = c], done |-> FALSE,
           value |-> m.nodes[c].val]

\* up to k calls of next() on the iterator in the store m, stopping when one
\* answers done: the iterator as they leave it and the values they yield
RECURSIVE iteratorRun(_, _, _)
iteratorRun(m, it, k) ==
  IF k = 0 THEN [it |-> it, values |-> <<>>]
  ELSE LET n == iteratorNext(m, it)
       IN IF n.done THEN [it |-> n.it, values |-> <<>>]
          ELSE LET rest == iteratorRun(m, n.it, k - 1)
               IN [it |-> rest.it, values |-> <<n.value>> \o rest.values]

\* for (let k = from; k < to; k++) this.pushBack(value(k)), on the result r
RECURSIVE pushLoop(_, _, _, _, _)
pushLoop(r, i, values, from, to) ==
  IF from >= to \/ r.threw # "none" \/ r.m.oom THEN r
  ELSE pushLoop(pushBack(r.m, i, values[from + 1]), i, values, from + 1, to)

\* assign(values, start, end), were it to push without clearing first
assignSliceAppend(m, i, values, start, end) ==
  IF start < 0 \/ end > Len(values) \/ start > end THEN Throw(m, "RangeError")
  ELSE pushLoop(Ok(m, Null), i, values, start, end)

\* assign(values, start, end)
assignSlice(m, i, values, start, end) ==
  IF start < 0 \/ end > Len(values) \/ start > end THEN Throw(m, "RangeError")
  ELSE pushLoop(clear(m, i), i, values, start, end)

\* assign(count, value)
assignCount(m, i, count, value) ==
  IF count < 0 THEN Throw(m, "RangeError")
  ELSE pushLoop(clear(m, i), i, [k \in 1..count |-> value], 0, count)

\* assign with arguments of any other shape: assign('foo'), assign(3)
assignOther(m, i) == Throw(m, "TypeError")

\* The loop of forEach from node `current`: the calls of the callback, each
\* with the value, the index and the list it was given.  The callback
\* returns undefined, except on the value callback.at, where one of kind
\* "false" returns false and one of kind "zero" returns 0.
RECURSIVE forEachLoop(_, _, _, _, _)
forEachLoop(m, i, callback, current, index) ==
  LET val == m.nodes[current].val
      res == IF callback.kind \in {"false", "zero"} /\ val = callback.at
             THEN callback.kind ELSE "undefined"
  IN IF current = Null THEN <<>>
     ELSE <<[value |-> val, index |-> index, list |-> i]>>
          \o (IF res = "false" THEN <<>>
              ELSE forEachLoop(m, i, callback, m.nodes[current].next, index + 1))

\* forEach, were it to go on whatever the callback returns
forEachNoBreak(m, i, callback) ==
  IF callback.kind = "notfn"
  THEN [m |-> m, ret |-> Null, threw |-> "TypeError", calls |-> <<>>]
  ELSE [m |-> m, ret |-> Null, threw |-> "none",
        calls |-> forEachLoop(m, i, [kind |-> "undefined", at |-> Null],
                              m.lists[i].head, 0)]

\* forEach(callback)
forEach(m, i, callback) ==
  IF callback.kind = "notfn"
  THEN [m |-> m, ret |-> Null, threw |-> "TypeError", calls |-> <<>>]
  ELSE [m |-> m, ret |-> Null, threw |-> "none",
        calls |-> forEachLoop(m, i, callback, m.lists[i].head, 0)]

RECURSIVE reverseLoop(_, _, _)
reverseLoop(m, prev, curr) ==
  IF curr = Null THEN [m |-> m, prev |-> prev]
  ELSE reverseLoop([m EXCEPT !.nodes[curr].next = prev,
                             !.nodes[curr].prev = m.nodes[curr].next],
                   curr, m.nodes[curr].next)

\* reverse, were it to leave #head and #tail where they are
reverseLinksOnly(m, i) ==
  IF m.lists[i].length <= 1 THEN Ok(m, Null)
  ELSE Ok(reverseLoop(m, Null, m.lists[i].head).m, Null)

reverse(m, i) ==
  LET done == reverseLoop(m, Null, m.lists[i].head)
  IN IF m.lists[i].length <= 1 THEN Ok(m, Null)
     ELSE Ok([done.m EXCEPT !.lists[i].tail = m.lists[i].head,
                            !.lists[i].head = done.prev], Null)

(***************************************************************************)
(* LinkedList: remove                                                       *)
(***************************************************************************)
\* the four relinking cases of remove, then current.cleanup()
removeNode(m, i, current, nextNode) ==
  LET prevNode == m.nodes[current].prev
      m1 == IF prevNode # Null /\ nextNode # Null
            THEN [m EXCEPT !.nodes[prevNode].next = nextNode,
                           !.nodes[nextNode].prev = prevNode]
            ELSE IF prevNode # Null
            THEN [m EXCEPT !.nodes[prevNode].next = Null, !.lists[i].tail = prevNode]
            ELSE IF nextNode # Null
            THEN [m EXCEPT !.nodes[nextNode].prev = Null, !.lists[i].head = nextNode]
            ELSE [m EXCEPT !.lists[i].head = Null, !.lists[i].tail = Null]
  IN cleanup(m1, current)

RECURSIVE removeLoop(_, _, _, _, _, _)
removeLoop(m, i, val, cmp, current, count) ==
  LET nextNode == m.nodes[current].next
      hit == removeCompare(cmp, m.nodes[current].val, val)
  IN IF current = Null
     THEN Ok([m EXCEPT !.lists[i].length = @ - count], count)
     ELSE IF hit.threw THEN Throw(m, "Thrown")
     ELSE IF hit.val
     THEN removeLoop(removeNode(m, i, current, nextNode), i, val, cmp, nextNode, count + 1)
     ELSE removeLoop(m, i, val, cmp, nextNode, count)

\* remove, were it to test compareFn before it tests for the empty list
removeTypeFirst(m, i, val, cmp) ==
  IF cmp.kind = "notfn" THEN Throw(m, "TypeError")
  ELSE IF isEmpty(m, i) THEN Ok(m, 0)
  ELSE removeLoop(m, i, val, cmp, m.lists[i].head, 0)

\* remove, were its scan to start at the node after #head
removeAfterHead(m, i, val, cmp) ==
  IF isEmpty(m, i) THEN Ok(m, 0)
  ELSE IF cmp.kind = "notfn" THEN Throw(m, "TypeError")
  ELSE removeLoop(m, i, val, cmp, m.nodes[m.lists[i].head].next, 0)

remove(m, i, val, cmp) ==
  IF isEmpty(m, i) THEN Ok(m, 0)
  ELSE IF cmp.kind = "notfn" THEN Throw(m, "TypeError")
  ELSE removeLoop(m, i, val, cmp, m.lists[i].head, 0)

(***************************************************************************)
(* LinkedList.swap, LinkedList.merge (list arguments: 1, 2 or null)         *)
(***************************************************************************)
swapKeepLength(m, list1, list2) ==
  IF ~(list1 \in Lists /\ list2 \in Lists) THEN Throw(m, "TypeError")
  ELSE Ok([m EXCEPT !.lists[list1].head = m.lists[list2].head,
                    !.lists[list1].tail = m.lists[list2].tail,
                    !.lists[list2].head = m.lists[list1].head,
                    !.lists[list2].tail = m.lists[list1].tail], Null)

\* swap, were it to exchange #factory with the rest
swapFactories(m, list1, list2) ==
  IF ~(list1 \in Lists /\ list2 \in Lists) THEN Throw(m, "TypeError")
  ELSE Ok([m EXCEPT !.lists[list1] = m.lists[list2],
                    !.lists[list2] = m.lists[list1]], Null)

swap(m, list1, list2) ==
  IF ~(list1 \in Lists /\ list2 \in Lists) THEN Throw(m, "TypeError")
  ELSE Ok([m EXCEPT !.lists[list1].head = m.lists[list2].head,
                    !.lists[list1].tail = m.lists[list2].tail,
                    !.lists[list1].length = m.lists[list2].length,
                    !.lists[list2].head = m.lists[list1].head,
                    !.lists[list2].tail = m.lists[list1].tail,
                    !.lists[list2].length = m.lists[list1].length], Null)

\* one source node taken off the front of source and linked before targetNode
mergeStep(m, target, source, targetNode, sourceNode) ==
  LET nextSource == m.nodes[sourceNode].next
      m1 == IF nextSource # Null THEN [m EXCEPT !.nodes[nextSource].prev = Null] ELSE m
      m2 == [m1 EXCEPT !.lists[source].head = nextSource]
      m3 == IF nextSource = Null THEN [m2 EXCEPT !.lists[source].tail = Null] ELSE m2
      m4 == [m3 EXCEPT !.lists[source].length = @ - 1]
      prevTarget == m4.nodes[targetNode].prev
      m5 == [m4 EXCEPT !.nodes[sourceNode].prev = prevTarget,
                       !.nodes[sourceNode].next = targetNode,
                       !.nodes[targetNode].prev = sourceNode]
      m6 == IF prevTarget # Null THEN [m5 EXCEPT !.nodes[prevTarget].next = sourceNode]
                                 ELSE [m5 EXCEPT !.lists[target].head = sourceNode]
  IN [m6 EXCEPT !.lists[target].length = @ + 1]

\* the remaining source nodes appended after target's tail
mergeRest(m, target, source, sourceNode) ==
  LET t == m.lists[target].tail
      m1 == IF t # Null THEN [m EXCEPT !.nodes[t].next = sourceNode,
                                       !.nodes[sourceNode].prev = t]
                        ELSE [m EXCEPT !.lists[target].head = sourceNode]
  IN [m1 EXCEPT !.lists[target].tail = m.lists[source].tail,
                !.lists[target].length = @ + m.lists[source].length,
                !.lists[source].head = Null, !.lists[source].tail = Null,
                !.lists[source].length = 0]

\* the loop of merge, were it to take a source node that ties with the
\* target node
RECURSIVE mergeLoopTies(_, _, _, _, _, _)
mergeLoopTies(m, target, source, cmp, targetNode, sourceNode) ==
  LET c == mergeCompare(cmp, m.nodes[sourceNode].val, m.nodes[targetNode].val)
  IN IF targetNode # Null /\ sourceNode # Null
     THEN IF c.threw THEN Throw(m, "Thrown")
          ELSE IF c.val <= 0
          THEN mergeLoopTies(mergeStep(m, target, source, targetNode, sourceNode),
                             target, source, cmp, targetNode, m.nodes[sourceNode].next)
          ELSE mergeLoopTies(m, target, source, cmp, m.nodes[targetNode].next, sourceNode)
     ELSE IF sourceNode # Null THEN Ok(mergeRest(m, target, source, sourceNode), Null)
     ELSE Ok(m, Null)

RECURSIVE mergeLoop(_, _, _, _, _, _)
mergeLoop(m, target, source, cmp, targetNode, sourceNode) ==
  LET c == mergeCompare(cmp, m.nodes[sourceNode].val, m.nodes[targetNode].val)
  IN IF targetNode # Null /\ sourceNode # Null
     THEN IF c.threw THEN Throw(m, "Thrown")
          ELSE IF c.val < 0
          THEN mergeLoop(mergeStep(m, target, source, targetNode, sourceNode),
                         target, source, cmp, targetNode, m.nodes[sourceNode].next)
          ELSE mergeLoop(m, target, source, cmp, m.nodes[targetNode].next, sourceNode)
     ELSE IF sourceNode # Null THEN Ok(mergeRest(m, target, source, sourceNode), Null)
     ELSE Ok(m, Null)

\* merge, were it to leave out the test of compareFn
mergeUntested(m, target, source, cmp) ==
  IF ~(target \in Lists /\ source \in Lists) THEN Throw(m, "TypeError")
  ELSE IF target = source THEN Throw(m, "Error")
  ELSE mergeLoop(m, target, source, cmp, m.lists[target].head, m.lists[source].head)

merge(m, target, source, cmp) ==
  IF ~(target \in Lists /\ source \in Lists) THEN Throw(m, "TypeError")
  ELSE IF cmp.kind = "notfn" THEN Throw(m, "TypeError")
  ELSE IF target = source THEN Throw(m, "Error")
  ELSE mergeLoop(m, target, source, cmp, m.lists[target].head, m.lists[source].head)

(***************************************************************************)
(* The state: the node store and the two LinkedList (or Stack, or Queue)    *)
(* objects; `last` is the most recent call, with what it returned or threw. *)
(***************************************************************************)
MaxArr == 2

\* the arrays handed to assign
Arrays == [1..MaxArr -> Vals]

NoCmp == [kind |-> "default", bad |-> Null]

CmpArgs == {NoCmp, [kind |-> "notfn", bad |-> Null]}
             \cup {[kind |-> "throws", bad |-> b] : b \in Vals}

\* remove's compareFn arguments: those of CmpArgs and (e, v) => e < v
RemoveCmps == CmpArgs \cup {[kind |-> "less", bad |-> Null]}

NoCall == [op |-> "init", ret |-> Null, threw |-> "none"]

M == [nodes |-> nodes, lists |-> lists, oom |-> FALSE]

\* The structure a list is meant to keep: #length counts the nodes met from
\* #head along next, the last of them is #tail, and prev mirrors next.
Chain(m, i) == Walk(m.nodes, m.lists[i].head, "next", <<>>)

WellFormed(m, i) ==
  LET L == m.lists[i]
      c == Chain(m, i)
  IN /\ (L.length = 0) = (L.head = Null)
     /\ (L.length = 0) = (L.tail = Null)
     /\ L.length = 1 => L.head = L.tail
     /\ Len(c) = L.length
     /\ L.length > 0 => c[Len(c)] = L.tail /\ m.nodes[L.tail].next = Null

Symmetric(m, i) ==
  LET L == m.lists[i]
      c == Chain(m, i)
  IN /\ L.head # Null => m.nodes[L.head].prev = Null
     /\ L.tail # Null => m.nodes[L.tail].next = Null
     /\ \A k \in 1..(Len(c) - 1) :
          m.nodes[c[k]].next = c[k + 1] /\ m.nodes[c[k + 1]].prev = c[k]

Malformed(m) == \E i \in Lists : ~WellFormed(m, i) \/ ~Symmetric(m, i)

\* The call `op` ends with result r: the containers are left as r.m.  The
\* call is within the model's bounds when the store had room for its nodes,
\* no #length passes MaxNodes, and at most MaxAfter calls follow one that
\* left a list malformed.
Commit(r, op) ==
  LET n == Normalize(r.m)
  IN /\ after <= MaxAfter
     /\ ~r.m.oom
     /\ \A i \in Lists : r.m.lists[i].length <= MaxNodes
     /\ after' = IF Malformed(n) THEN after + 1 ELSE 0
     /\ nodes' = n.nodes
     /\ lists' = n.lists
     /\ last' = [op |-> op, ret |-> r.ret, threw |-> r.threw]

InitStore ==
  /\ nodes = [a \in Addr |-> [val |-> Null, prev |-> Null, next |-> Null]]
  /\ last = NoCall
  /\ after = 0

NoHeaps ==
  /\ arrays = <<>>
  /\ heaps = <<>>

\* new LinkedList({ factory }) twice: list 1 with a factory, list 2 without
Init ==
  /\ InitStore
  /\ lists = [i \in Lists |-> [head |-> Null, tail |-> Null, length |-> 0,
                               factory |-> IF i = 1 THEN "succ" ELSE "none"]]
  /\ ghost = <<>>
  /\ NoHeaps

ListFrame == UNCHANGED <<ghost, arrays, heaps>>

PushFront(i, v) ==
  Commit(pushFront(M, i, v), "pushFront") /\ ListFrame

PushBack(i, v) ==
  Commit(pushBack(M, i, v), "pushBack") /\ ListFrame

PopFront(i) ==
  Commit(popFront(M, i), "popFront") /\ ListFrame

PopBack(i) ==
  Commit(popBack(M, i), "popBack") /\ ListFrame

GetFront(i) ==
  Commit(getFront(M, i), "front") /\ ListFrame

SetFront(i, v) ==
  Commit(setFront(M, i, v), "front=") /\ ListFrame

GetBack(i) ==
  Commit(getBack(M, i), "back") /\ ListFrame

SetBack(i, v) ==
  Commit(setBack(M, i, v), "back=") /\ ListFrame

InsertAt(i, v, index) ==
  Commit(insertAt(M, i, v, index), "insertAt") /\ ListFrame

EraseAt(i, index) ==
  Commit(eraseAt(M, i, index), "eraseAt")
  /\ ListFrame

EmplaceFront(i, arg) ==
  Commit(emplaceFront(M, i, arg), "emplaceFront")
  /\ ListFrame

EmplaceBack(i, arg) ==
  Commit(emplaceBack(M, i, arg), "emplaceBack")
  /\ ListFrame

EmplaceAt(i, index, arg) ==
  Commit(emplaceAt(M, i, index, arg), "emplaceAt") /\ ListFrame

Clear(i) ==
  Commit(clear(M, i), "clear") /\ ListFrame

AssignSlice(i, values, start, end) ==
  Commit(assignSlice(M, i, values, start, end), "assignSlice") /\ ListFrame

AssignCount(i, count, v) ==
  Commit(assignCount(M, i, count, v), "assignCount") /\ ListFrame

AssignOther(i) ==
  Commit(assignOther(M, i), "assignOther") /\ ListFrame

\* the callbacks handed to forEach
Callbacks == {[kind |-> k, at |-> v] : k \in {"false", "zero"}, v \in Vals}
               \cup {[kind |-> "undefined", at |-> Null], [kind |-> "notfn", at |-> Null]}

ForEach(i, callback) ==
  Commit(forEach(M, i, callback), "forEach") /\ ListFrame

Reverse(i) ==
  Commit(reverse(M, i), "reverse") /\ ListFrame

Remove(i, v, cmp) ==
  Commit(remove(M, i, v, cmp), "remove")
  /\ ListFrame

Swap(i, j) ==
  Commit(swap(M, i, j), "swap") /\ ListFrame

Merge(i, j, cmp) ==
  Commit(merge(M, i, j, cmp), "merge")
  /\ ListFrame

Indexes == -1..MaxNodes

ListArgs == Lists \cup {Null}

Next ==
  \/ \E i \in Lists, v \in Vals : PushFront(i, v)
  \/ \E i \in Lists, v \in Vals : PushBack(i, v)
  \/ \E i \in Lists : PopFront(i)
  \/ \E i \in Lists : PopBack(i)
  \/ \E i \in Lists : GetFront(i)
  \/ \E i \in Lists, v \in Vals : SetFront(i, v)
  \/ \E i \in Lists : GetBack(i)
  \/ \E i \in Lists, v \in Vals : SetBack(i, v)
  \/ \E i \in Lists, v \in Vals, index \in Indexes : InsertAt(i, v, index)
  \/ \E i \in Lists, index \in Indexes : EraseAt(i, index)
  \/ \E i \in Lists, arg \in Vals \cup {Null} : EmplaceFront(i, arg)
  \/ \E i \in Lists, arg \in Vals \cup {Null} : EmplaceBack(i, arg)
  \/ \E i \in Lists, arg \in Vals \cup {Null}, index \in Indexes : EmplaceAt(i, index, arg)
  \/ \E i \in Lists : Clear(i)
  \/ \E i \in Lists, values \in Arrays, start \in -1..MaxArr, end \in 0..(MaxArr + 1) :
       AssignSlice(i, values, start, end)
  \/ \E i \in Lists, count \in -1..MaxArr, v \in Vals : AssignCount(i, count, v)
  \/ \E i \in Lists : AssignOther(i)
  \/ \E i \in Lists, callback \in Callbacks : ForEach(i, callback)
  \/ \E i \in Lists : Reverse(i)
  \/ \E i \in Lists, v \in Vals, cmp \in RemoveCmps : Remove(i, v, cmp)
  \/ \E i \in ListArgs, j \in ListArgs : Swap(i, j)
  \/ \E i \in ListArgs, j \in ListArgs, cmp \in CmpArgs : Merge(i, j, cmp)

Spec == Init /\ [][Next]_vars

(***************************************************************************)
(* Claims about the LinkedList                                              *)
(***************************************************************************)
Snapshot(m) == [i \in Lists |-> [array |-> toArray(m, i), length |-> m.lists[i].length]]

RemoveAt(s, k) == [j \in 1..(Len(s) - 1) |-> IF j < k THEN s[j] ELSE s[j + 1]]

Sorted(s) == \A k \in 1..(Len(s) - 1) : s[k] <= s[k + 1]

Count(s, v) == Cardinality({k \in 1..Len(s) : s[k] = v})

SameElements(s, t) == \A v \in Vals \cup {Null} : Count(s, v) = Count(t, v)

\* C1: a call whose arguments are valid (no callback of the caller throws),
\* made on well-formed lists, leaves every list well-formed: length = 0 iff
\* head is null iff tail is null, length = 1 implies head = tail, and next
\* from head visits exactly `length` nodes and ends at tail.
C1_StructureKept ==
  [][(~Malformed(M) /\ last'.threw # "Thrown") => \A i \in Lists : WellFormed(M', i)]_vars

\* C6: on a non-empty list eraseAt(index), 0 <= index <= length-1, returns the
\* element at that position, removes exactly that element and decreases
\* length by one.
C6_EraseAt ==
  [][\A i \in Lists, index \in Indexes :
       (~Malformed(M) /\ 0 <= index /\ index < lists[i].length /\ EraseAt(i, index))
       => /\ last'.threw = "none"
          /\ last'.ret = toArray(M, i)[index + 1]
          /\ toArray(M', i) = RemoveAt(toArray(M, i), index + 1)
          /\ lists'[i].length = lists[i].length - 1]_vars

MergePost(target, source) ==
  /\ last'.threw = "none"
  /\ Sorted(toArray(M', target))
  /\ SameElements(toArray(M', target), toArray(M, target) \o toArray(M, source))
  /\ lists'[target].length = lists[target].length + lists[source].length
  /\ lists'[source].length = 0
  /\ toArray(M', source) = <<>>

\* C7: merge(target, source) of two distinct lists, each sorted ascending,
\* leaves target holding all the elements sorted, with the sum of the two
\* lengths, and source empty.
C7_Merge ==
  [][\A target \in Lists, source \in Lists :
       (target # source /\ Sorted(toArray(M, target)) /\ Sorted(toArray(M, source))
          /\ Merge(target, source, NoCmp))
       => MergePost(target, source)]_vars

\* C7 restricted to well-formed lists: merge itself relinks correctly.
C7_MergeWellFormed ==
  [][\A target \in Lists, source \in Lists :
       (~Malformed(M) /\ target # source
          /\ Sorted(toArray(M, target)) /\ Sorted(toArray(M, source))
          /\ Merge(target, source, NoCmp))
       => MergePost(target, source)]_vars

Reversed(s) == [k \in 1..Len(s) |-> s[Len(s) + 1 - k]]

\* merge's compareFn arguments that return normally: the default, and
\* (a, b) => b - a, () => -1 and () => 0
MergeCmps == {[kind |-> k, bad |-> Null] : k \in {"default", "desc", "neg", "zero"}}

\* the nodes of the chain c that the list i held in the store m, in c's order
From(c, m, i) == SelectSeq(c, LAMBDA n : n \in Range(Chain(m, i)))

\* what C36 says of the result r of merge(target, source, cmp) in the store M
MergeAllPost(target, source, r) ==
  LET c == Chain(r.m, target)
  IN /\ r.threw = "none"
     /\ r.m.lists[source].length = 0
     /\ r.m.lists[source].head = Null /\ r.m.lists[source].tail = Null
     /\ r.m.lists[target].length = M.lists[target].length + M.lists[source].length
     /\ Len(c) = r.m.lists[target].length
     /\ r.m.lists[target].tail = IF c = <<>> THEN Null ELSE c[Len(c)]
     /\ SameElements(toArray(r.m, target), toArray(M, target) \o toArray(M, source))
     /\ From(c, M, target) = Chain(M, target)
     /\ From(c, M, source) = Chain(M, source)
     /\ \A n \in Range(c) : r.m.nodes[n].val = M.nodes[n].val
     /\ rbegin(r.m, target) = Reversed(toArray(r.m, target))

\* C36: for any two distinct lists, sorted or not, and any compareFn that
\* returns normally, merge(target, source, compareFn) ends with source
\* empty (length 0, head and tail null) and target holding the multiset
\* union of both lists, its length the sum of the two lengths; no element is
\* lost or duplicated, and the nodes that came from each list keep their
\* relative order.  Stated of the result of the call in each reachable state.
C36_MergeAll ==
  \A target \in Lists, source \in Lists, cmp \in MergeCmps :
    target # source =>
    MergeAllPost(target, source, merge(M, target, source, cmp))

\* C36 on lists that are well formed: merge itself loses and doubles nothing.
C36_MergeAllWellFormed ==
  \A target \in Lists, source \in Lists, cmp \in MergeCmps :
    (target # source /\ ~Malformed(M)) => MergeAllPost(target, source, merge(M, target, source, cmp))

\* merge has joined two unsorted lists
C36_Witness ==
  /\ last.op = "merge" /\ last.threw = "none"
  /\ \E i \in Lists : lists[i].length = MaxNodes /\ ~Sorted(toArray(M, i))
  /\ ~Malformed(M)

\* the list holds its values in ascending order under the comparator
SortedUnder(m, i, cmp) ==
  LET s == toArray(m, i)
  IN \A k \in 1..(Len(s) - 1) : mergeCompare(cmp, s[k], s[k + 1]).val <= 0

\* what C39 says of the result r of merge(target, source, cmp) in the store
\* M, c being target's chain afterwards: a target node precedes every source
\* node it ties with, and a source node that stands right before a target
\* node compares < 0 with it
Stable(target, source, cmp, r) ==
  LET c == Chain(r.m, target)
      pos(n) == CHOOSE k \in 1..Len(c) : c[k] = n
      S == Range(Chain(M, source)) \cap Range(c)
      T == Range(Chain(M, target)) \cap Range(c)
  IN /\ \A ns \in S, nt \in T :
          mergeCompare(cmp, M.nodes[ns].val, M.nodes[nt].val).val = 0
          => pos(nt) < pos(ns)
     /\ \A ns \in S, nt \in T :
          pos(nt) = pos(ns) + 1
          => mergeCompare(cmp, M.nodes[ns].val, M.nodes[nt].val).val < 0

\* C39 as claimed: merge is stable on ties, whatever the two lists hold.
C39_Stable ==
  \A target \in Lists, source \in Lists, cmp \in MergeCmps :
    LET r == merge(M, target, source, cmp)
    IN (target # source /\ ~Malformed(M)) => Stable(target, source, cmp, r)

\* C39 for the lists merge is written for, both sorted ascending under
\* compareFn: a target element precedes every source element it ties with,
\* and a source element stands right before a target element only when it
\* compares < 0 with it.  The second half holds of unsorted lists too.
C39_StableSorted ==
  \A target \in Lists, source \in Lists, cmp \in MergeCmps :
    LET r == merge(M, target, source, cmp)
        c == Chain(r.m, target)
    IN target # source
       => /\ (SortedUnder(M, target, cmp) /\ SortedUnder(M, source, cmp))
             => Stable(target, source, cmp, r)
          /\ \A k \in 1..(Len(c) - 1) :
               (c[k] \in Range(Chain(M, source)) /\ c[k + 1] \in Range(Chain(M, target)))
               => mergeCompare(cmp, M.nodes[c[k]].val, M.nodes[c[k + 1]].val).val < 0

\* two sorted lists that both hold 1, the target a greater value after it:
\* merge puts the source's 1 after the target's and before the greater value
C39_Witness ==
  \E target \in Lists, source \in Lists :
    LET r == merge(M, target, source, NoCmp)
    IN /\ target # source /\ ~Malformed(M)
       /\ toArray(M, target) = <<1, MaxVal>>
       /\ toArray(M, source) = <<1>>
       /\ Chain(r.m, target)
            = <<M.lists[target].head, M.lists[source].head, M.lists[target].tail>>

\* C8: a mutator that throws leaves toArray() and length of every list as
\* they were before the call.
C8_ThrowLeavesLists ==
  [][(~Malformed(M) /\ last'.threw # "none") => Snapshot(M') = Snapshot(M)]_vars

\* C31: forEach(callback) invokes the callback once per element in
\* head-to-tail order with the indices 0, 1, 2, ... and the list as third
\* argument; it stops after the first invocation that returns exactly false
\* (a return of undefined or 0 does not stop it) and never invokes the
\* callback after that; a callback that is not a function throws TypeError
\* before any invocation.  The list is left as it was.  Stated of the result
\* of each call in each reachable state.
C31_ForEach ==
  \A i \in Lists, callback \in Callbacks :
    LET r == forEach(M, i, callback)
        a == toArray(M, i)
        stops == IF callback.kind = "false"
                 THEN {k \in 1..Len(a) : a[k] = callback.at} ELSE {}
        n == IF stops = {} THEN Len(a) ELSE Min(stops)
    IN /\ r.m = M
       /\ IF callback.kind = "notfn"
          THEN r.threw = "TypeError" /\ r.calls = <<>>
          ELSE /\ r.threw = "none"
               /\ r.calls = [k \in 1..n |-> [value |-> a[k], index |-> k - 1, list |-> i]]

\* forEach has run on a list of MaxNodes elements that holds the value on
\* which a callback stops before its last element
C31_Witness ==
  /\ last.op = "forEach" /\ last.threw = "none"
  /\ \E i \in Lists :
       /\ Len(toArray(M, i)) = MaxNodes
       /\ \E callback \in Callbacks :
            LET n == Len(forEach(M, i, callback).calls) IN 0 < n /\ n < MaxNodes

\* C33, LinkedList: after clear() on a list in any reachable state isEmpty()
\* is true, length is 0 and toArray() is empty, no other list has changed,
\* and the list is usable again: a value pushed at either end is the one
\* popped next from either end.  Stated of the result of the call in each
\* reachable state.
C33_Clear ==
  \A i \in Lists :
    LET r == clear(M, i)
    IN /\ r.threw = "none"
       /\ isEmpty(r.m, i) /\ r.m.lists[i].length = 0
       /\ toArray(r.m, i) = <<>> /\ rbegin(r.m, i) = <<>>
       /\ \A j \in Lists \ {i} : toArray(r.m, j) = toArray(M, j)
       /\ \A v \in Vals :
            LET b == pushBack(r.m, i, v)
                f == pushFront(r.m, i, v)
            IN /\ ~b.m.oom => /\ b.threw = "none" /\ toArray(b.m, i) = <<v>>
                              /\ popBack(b.m, i).ret = v /\ popFront(b.m, i).ret = v
                              /\ popBack(b.m, i).threw = "none"
                              /\ isEmpty(popBack(b.m, i).m, i)
               /\ ~f.m.oom => /\ f.threw = "none" /\ toArray(f.m, i) = <<v>>
                              /\ popBack(f.m, i).ret = v /\ popFront(f.m, i).ret = v
                              /\ popFront(f.m, i).threw = "none"

\* clear has emptied a list that held MaxNodes elements
C33_Witness ==
  /\ last.op = "clear" /\ last.threw = "none"
  /\ \E i \in Lists : isEmpty(M, i) /\ toArray(M, i) = <<>>
  /\ \A a \in Addr : nodes[a].val = Null

\* a new iterator of list i, and next() until done
Iterator(i, dir) == [list |-> i, dir |-> dir, at |-> "start", current |-> Null]

Drain(m, it) == iteratorRun(m, it, MaxNodes + 2).values

\* the mutating calls interleaved with the next() steps of an iterator of
\* list i, by name, and the result of each in the store m
Interleaved == {"pushBack", "pushFront", "popFront", "popBack", "eraseAt", "clear"}

Mutate(m, i, op) ==
  CASE op = "pushBack" -> pushBack(m, i, MaxVal)
    [] op = "pushFront" -> pushFront(m, i, MaxVal)
    [] op = "popFront" -> popFront(m, i)
    [] op = "popBack" -> popBack(m, i)
    [] op = "eraseAt" -> eraseAt(m, i, 1)
    [] op = "clear" -> clear(m, i)

\* the traversal order of list i in the store m in the direction dir
Traversal(m, i, dir) == IF dir = "next" THEN toArray(m, i) ELSE rbegin(m, i)

\* C34 as claimed: an iterator of list i created in a reachable state yields
\* the contents the list had at its creation, in traversal order, whichever
\* of pushBack, pushFront, popFront, popBack, eraseAt and clear is called
\* after k of its next() steps.
C34_Snapshot ==
  \A i \in Lists, dir \in {"next", "prev"}, k \in 0..MaxNodes, op \in Interleaved :
    LET before == iteratorRun(M, Iterator(i, dir), k)
        r == Mutate(M, i, op)
    IN (WellFormed(M, i) /\ r.threw = "none" /\ ~r.m.oom)
       => before.values \o Drain(r.m, before.it) = Traversal(M, i, dir)

\* C34 as the code has it.  next() reads the store and writes nothing, and
\* with no mutating call between creation and the last next() the iterator
\* yields the traversal order of the list.  It is no snapshot: its body
\* starts at #head (#tail) at the first next(), so an iterator not yet
\* advanced yields the contents a mutating call has left; a forward iterator
\* not yet done yields a value pushed at the back after its creation, and a
\* reverse one a value pushed at the front; and an iterator standing on the
\* node that popFront, popBack, eraseAt or clear cleans up yields nothing
\* more, although elements remain.
C34_LiveIterator ==
  \A i \in Lists, dir \in {"next", "prev"} :
    /\ \A k \in 0..MaxNodes :
         LET before == iteratorRun(M, Iterator(i, dir), k)
         IN before.values \o Drain(M, before.it) = Traversal(M, i, dir)
    /\ \A op \in Interleaved :
         LET r == Mutate(M, i, op)
         IN (r.threw = "none" /\ ~r.m.oom)
            => Drain(r.m, Iterator(i, dir)) = Traversal(r.m, i, dir)
    /\ WellFormed(M, i)
       => \A k \in 0..M.lists[i].length :
            LET before == iteratorRun(M, Iterator(i, dir), k)
                far == Mutate(M, i, IF dir = "next" THEN "pushBack" ELSE "pushFront")
            IN /\ ~far.m.oom
                  => before.values \o Drain(far.m, before.it)
                       = Traversal(M, i, dir) \o <<MaxVal>>
               /\ \A op \in Interleaved :
                    LET r == Mutate(M, i, op)
                    IN (/\ r.threw = "none" /\ before.it.at = "yield"
                        /\ r.m.nodes[before.it.current].val = Null)
                       => Drain(r.m, before.it) = <<>>

\* a list of two or more elements whose forward iterator, advanced once and
\* then met by popFront(), ends without yielding the elements that remain
C34_Witness ==
  \E i \in Lists :
    LET before == iteratorRun(M, Iterator(i, "next"), 1)
        r == popFront(M, i)
    IN /\ WellFormed(M, i) /\ M.lists[i].length >= 2
       /\ r.threw = "none" /\ toArray(r.m, i) # <<>>
       /\ before.values = <<toArray(M, i)[1]>>
       /\ Drain(r.m, before.it) = <<>>

\* what reverse() is to do to list i, r the result of the call
ReversePost(i, r) ==
  /\ r.threw = "none"
  /\ toArray(r.m, i) = Reversed(toArray(M, i))
  /\ r.m.lists[i].length = lists[i].length
  /\ r.m.lists[i].head = lists[i].tail /\ r.m.lists[i].tail = lists[i].head
  /\ lists[i].length <= 1 => r.m = M
  /\ toArray(reverse(r.m, i).m, i) = toArray(M, i)
  /\ rbegin(r.m, i) = Reversed(toArray(r.m, i))
  /\ \A j \in Lists \ {i} : toArray(r.m, j) = toArray(M, j)

\* C32: reverse() on any list makes toArray() the exact reverse of what it
\* was, leaves length unchanged, exchanges head and tail, is a no-op for
\* length <= 1 and applied twice restores the original sequence; forward and
\* reverse iteration are mirror images of each other afterwards.  Stated of
\* the result of the call in each reachable state.
C32_Reverse == \A i \in Lists : ReversePost(i, reverse(M, i))

\* C32 for the lists no earlier call has left malformed.
C32_ReverseWellFormed ==
  \A i \in Lists : (WellFormed(M, i) /\ Symmetric(M, i)) => ReversePost(i, reverse(M, i))

\* reverse has run on a well-formed list of MaxNodes elements, not all equal
C32_Witness ==
  /\ last.op = "reverse" /\ last.threw = "none"
  /\ \E i \in Lists :
       /\ WellFormed(M, i) /\ Symmetric(M, i) /\ lists[i].length = MaxNodes
       /\ toArray(M, i) # Reversed(toArray(M, i))

\* C11: in every reachable state the links of each list are symmetric (next
\* of one node is a second node exactly when prev of the second is the
\* first, head.prev and tail.next are null), and rbegin() yields the
\* elements of forward iteration in reverse order.
C11_LinksSymmetric ==
  \A i \in Lists : Symmetric(M, i) /\ rbegin(M, i) = Reversed(toArray(M, i))

\* C11 for the calls made on well-formed lists: each of them leaves the
\* links symmetric and the two iterations mirror images of each other.
C11_SymmetricStep ==
  [][~Malformed(M)
       => \A i \in Lists : Symmetric(M', i) /\ rbegin(M', i) = Reversed(toArray(M', i))]_vars

\* the elements of s that compareFn(e, v) does not match, in their order
Unmatched(s, v, cmp) == SelectSeq(s, LAMBDA e : ~removeCompare(cmp, e, v).val)

\* C12: remove(value, compareFn), compareFn a function that returns, removes
\* every element that compareFn matches against value, wherever it sits,
\* keeps the other elements in their order, returns the number removed and
\* decreases length by that number.
C12_Remove ==
  [][\A i \in Lists, v \in Vals, cmp \in RemoveCmps :
       (last'.op = "remove" /\ cmp.kind \in {"default", "less"} /\ Remove(i, v, cmp))
       => /\ last'.threw = "none"
          /\ toArray(M', i) = Unmatched(toArray(M, i), v, cmp)
          /\ last'.ret = Len(toArray(M, i)) - Len(toArray(M', i))
          /\ lists'[i].length = lists[i].length - last'.ret
          /\ \A j \in Lists \ {i} : toArray(M', j) = toArray(M, j)]_vars

\* C12 is met with a match at the head, one at the tail and a survivor
\* between them.
C12_Witness ==
  /\ last.op = "remove" /\ last.ret = 2
  /\ \E i \in Lists : lists[i].length = 1 /\ toArray(M, i) = <<2>>

InsertInto(s, k, v) == SubSeq(s, 1, k) \o <<v>> \o SubSeq(s, k + 1, Len(s))

InsertAtPost(i, v, index) ==
  IF 0 <= index /\ index <= lists[i].length
  THEN /\ last'.threw = "none"
       /\ index <= Len(toArray(M, i))
       /\ toArray(M', i) = InsertInto(toArray(M, i), index, v)
       /\ lists'[i].length = lists[i].length + 1
  ELSE /\ last'.threw = "RangeError"
       /\ Snapshot(M') = Snapshot(M)

\* C13: insertAt(v, index) with 0 <= index <= length puts v at position
\* index, the elements before it unchanged and the elements from index on
\* shifted by one, and adds one to length; with any other index it throws
\* RangeError and leaves the list as it was.
C13_InsertAt ==
  [][\A i \in Lists, v \in Vals, index \in Indexes :
       (last'.op = "insertAt" /\ InsertAt(i, v, index)) => InsertAtPost(i, v, index)]_vars

\* C13 for the calls made on well-formed lists: insertAt itself links the
\* new node as the claim says.
C13_InsertAtWellFormed ==
  [][\A i \in Lists, v \in Vals, index \in Indexes :
       (last'.op = "insertAt" /\ ~Malformed(M) /\ InsertAt(i, v, index))
       => InsertAtPost(i, v, index)]_vars

PushPost(i, v) ==
  /\ last'.threw = "none"
  /\ lists'[i].length = lists[i].length + 1
  /\ toArray(M', i) = IF last'.op = "pushBack" THEN Append(toArray(M, i), v)
                                               ELSE <<v>> \o toArray(M, i)

\* C14: pushBack(v) appends v as the last element and pushFront(v) prepends
\* it as the first, each adding one to length and leaving the elements
\* already there in their order.
C14_Push ==
  [][\A i \in Lists, v \in Vals :
       \/ last'.op = "pushBack" /\ PushBack(i, v)
       \/ last'.op = "pushFront" /\ PushFront(i, v)
       => PushPost(i, v)]_vars

\* C14 for the calls made on well-formed lists: the two pushes themselves
\* do what the claim says.
C14_PushWellFormed ==
  [][\A i \in Lists, v \in Vals :
       /\ ~Malformed(M)
       /\ \/ last'.op = "pushBack" /\ PushBack(i, v)
          \/ last'.op = "pushFront" /\ PushFront(i, v)
       => PushPost(i, v)]_vars

EmplacePost(i, arg, k) ==
  IF lists[i].factory = "none"
  THEN last'.threw = "Error" /\ Snapshot(M') = Snapshot(M)
  ELSE /\ last'.threw = "none"
       /\ k <= Len(toArray(M, i))
       /\ toArray(M', i)
            = InsertInto(toArray(M, i), k, factoryCall(lists[i].factory, arg).val)
       /\ lists'[i].length = lists[i].length + 1

EmplaceCalls(i, arg) ==
  /\ (last'.op = "emplaceFront" /\ EmplaceFront(i, arg)) => EmplacePost(i, arg, 0)
  /\ (last'.op = "emplaceBack" /\ EmplaceBack(i, arg))
       => EmplacePost(i, arg, Len(toArray(M, i)))
  /\ \A index \in 0..lists[i].length :
       (last'.op = "emplaceAt" /\ EmplaceAt(i, index, arg)) => EmplacePost(i, arg, index)

\* C19: on a list built with a factory, emplaceFront, emplaceBack and
\* emplaceAt (index within 0..length) insert the value the factory returns
\* for the arguments at the front, at the back and at index; on a list
\* built without a factory they throw and leave the list unchanged.
C19_Emplace ==
  [][\A i \in Lists, arg \in Vals : EmplaceCalls(i, arg)]_vars

\* C19 for the calls made on well-formed lists: the emplace methods
\* themselves do what the claim says.
C19_EmplaceWellFormed ==
  [][\A i \in Lists, arg \in Vals : ~Malformed(M) => EmplaceCalls(i, arg)]_vars

\* a call that ends with result r has been refused: the error, and every
\* list as it was
Refused(r, kind) == r.threw = kind /\ Snapshot(r.m) = Snapshot(M)

NotFn == [kind |-> "notfn", bad |-> Null]

\* C22: remove(value, compareFn) with a compareFn that is not a function
\* throws TypeError and leaves every list as it was, whatever the list
\* holds; and remove on an empty list returns 0.
C22_RemoveGuards ==
  [][\A i \in Lists, v \in Vals :
       /\ (last'.op = "remove" /\ Remove(i, v, NotFn))
            => last'.threw = "TypeError" /\ Snapshot(M') = Snapshot(M)
       /\ \A cmp \in RemoveCmps \ {NotFn} :
            (last'.op = "remove" /\ lists[i].length = 0 /\ Remove(i, v, cmp))
            => last'.threw = "none" /\ last'.ret = 0]_vars

\* C22 as the code has it: the test for the empty list comes first.  On a
\* list of length 0 remove returns 0 and changes nothing whatever compareFn
\* is; on any other list a compareFn that is not a function makes it throw
\* TypeError and change nothing.
C22_RemoveEmptyFirst ==
  [][\A i \in Lists, v \in Vals, cmp \in RemoveCmps :
       (last'.op = "remove" /\ Remove(i, v, cmp))
       => /\ lists[i].length = 0
               => last'.threw = "none" /\ last'.ret = 0 /\ Snapshot(M') = Snapshot(M)
          /\ (lists[i].length # 0 /\ cmp = NotFn)
               => last'.threw = "TypeError" /\ Snapshot(M') = Snapshot(M)]_vars

\* remove has refused a compareFn on a list that holds elements
C22_Witness ==
  /\ last.op = "remove" /\ last.threw = "TypeError"
  /\ \E i \in Lists : lists[i].length = MaxNodes

\* C23: merge(target, source, compareFn) throws when target and source are
\* the same list, when either is not a LinkedList, or when compareFn is not
\* a function, and then no list is modified.  Stated of the result of each
\* such call in each reachable state.
C23_MergeGuards ==
  \A target \in ListArgs, source \in ListArgs, cmp \in CmpArgs :
    (target = source \/ target = Null \/ source = Null \/ cmp = NotFn)
    => LET r == merge(M, target, source, cmp)
       IN /\ r.threw \in {"TypeError", "Error"}
          /\ Snapshot(r.m) = Snapshot(M)
          /\ (target \in Lists /\ target = source /\ cmp # NotFn) => r.threw = "Error"

\* merge has refused to merge a list with itself, both lists holding elements
C23_Witness ==
  /\ last.op = "merge" /\ last.threw = "Error"
  /\ \A i \in Lists : lists[i].length > 0 /\ Len(toArray(M, i)) = lists[i].length

\* C26: LinkedList.swap(A, B) exchanges the contents and the lengths of the
\* two lists, lists that were well-formed are well-formed afterwards,
\* swap(A, A) leaves A as it was and swapping twice restores both lists; with
\* an argument that is not a LinkedList it throws TypeError and no list is
\* modified.  Stated of the result of each call in each reachable state.
C26_Swap ==
  \A list1 \in ListArgs, list2 \in ListArgs :
    LET r == swap(M, list1, list2)
    IN IF list1 \in Lists /\ list2 \in Lists
       THEN /\ r.threw = "none"
            /\ toArray(r.m, list1) = toArray(M, list2)
            /\ toArray(r.m, list2) = toArray(M, list1)
            /\ r.m.lists[list1].length = lists[list2].length
            /\ r.m.lists[list2].length = lists[list1].length
            /\ r.m.lists[list1].factory = lists[list1].factory
            /\ r.m.lists[list2].factory = lists[list2].factory
            /\ r.m.nodes = nodes
            /\ WellFormed(M, list2) => WellFormed(r.m, list1)
            /\ WellFormed(M, list1) => WellFormed(r.m, list2)
            /\ list1 = list2 => r.m = M
            /\ swap(r.m, list1, list2).m = M
       ELSE r.threw = "TypeError" /\ r.m = M

\* swap has exchanged two well-formed lists of different lengths, both holding
\* elements
C26_Witness ==
  /\ last.op = "swap" /\ last.threw = "none"
  /\ lists[1].length > 0 /\ lists[2].length > lists[1].length
  /\ \A i \in Lists : WellFormed(M, i)

stackPush(m, i, value) ==
  LET a == Alloc(m)
      m1 == [m EXCEPT !.nodes[a] = ListNode(value)]
      t == m.lists[i].tail
  IN IF a = Null THEN Oom(m)
     ELSE IF isEmpty(m, i)
     THEN Ok([m1 EXCEPT !.lists[i].head = a, !.lists[i].tail = a,
                        !.lists[i].length = @ + 1], Null)
     ELSE IF t = Null THEN Throw([m1 EXCEPT !.nodes[a].prev = t], "TypeError")
     ELSE Ok([m1 EXCEPT !.nodes[a].prev = t, !.nodes[t].next = a,
                        !.lists[i].tail = a, !.lists[i].length = @ + 1], Null)

\* a faulty pop that takes the node at #head, the oldest element
stackPopHead(m, i) == popFront(m, i)

stackPop(m, i) ==
  LET L == m.lists[i]
      peek == L.tail
      peekVal == m.nodes[peek].val
      prevNode == m.nodes[peek].prev
  IN IF isEmpty(m, i) THEN Throw(m, "Error")
     ELSE IF peek = Null THEN Throw(m, "TypeError")
     ELSE IF L.length = 1
     THEN Ok([cleanup([m EXCEPT !.lists[i].head = Null, !.lists[i].tail = Null], peek)
                EXCEPT !.lists[i].length = @ - 1], peekVal)
     ELSE IF prevNode = Null THEN Throw(m, "TypeError")
     ELSE Ok([cleanup([m EXCEPT !.nodes[prevNode].next = Null,
                                !.lists[i].tail = prevNode], peek)
                EXCEPT !.lists[i].length = @ - 1], peekVal)

\* Stack.swap, were it to leave out the test of the factories
stackSwapAny(m, stack1, stack2) ==
  IF ~(stack1 \in Lists /\ stack2 \in Lists) THEN Throw(m, "TypeError")
  ELSE swap(m, stack1, stack2)

\* Stack.swap(stack1, stack2), the arguments stacks 1, 2 or null
stackSwap(m, stack1, stack2) ==
  IF ~(stack1 \in Lists /\ stack2 \in Lists) THEN Throw(m, "TypeError")
  ELSE IF m.lists[stack1].factory # m.lists[stack2].factory THEN Throw(m, "TypeError")
  ELSE Ok([m EXCEPT !.lists[stack1].head = m.lists[stack2].head,
                    !.lists[stack1].tail = m.lists[stack2].tail,
                    !.lists[stack1].length = m.lists[stack2].length,
                    !.lists[stack2].head = m.lists[stack1].head,
                    !.lists[stack2].tail = m.lists[stack1].tail,
                    !.lists[stack2].length = m.lists[stack1].length], Null)

\* Stack.clear()
stackClear(m, i) ==
  Ok([clearLoop(m, m.lists[i].head)
        EXCEPT !.lists[i].head = Null, !.lists[i].tail = Null,
               !.lists[i].length = 0], Null)

\* The deepCloneFn arguments of clone: none (the default, structuredClone,
\* which gives a number back as it is), (val) => val % MaxVal + 1, a function
\* that throws on MaxVal, and a value that is not a function.
CloneFns == {"default", "next", "throws", "notfn"}

deepCloneFn(kind, val) ==
  CASE kind = "next" -> [val |-> (val % MaxVal) + 1, threw |-> FALSE]
    [] kind = "throws" -> [val |-> val, threw |-> val = MaxVal]
    [] OTHER -> [val |-> val, threw |-> FALSE]

\* for (const val of this) copy.push(deepCloneFn(val)), from node `current`
RECURSIVE cloneLoop(_, _, _, _)
cloneLoop(r, copy, fn, current) ==
  IF current = Null \/ r.threw # "none" \/ r.m.oom THEN r
  ELSE LET c == deepCloneFn(fn, r.m.nodes[current].val)
       IN IF c.threw THEN Throw(r.m, "Thrown")
          ELSE cloneLoop(stackPush(r.m, copy, c.val), copy, fn, r.m.nodes[current].next)

\* a faulty clone that hands out the container itself: the copy takes the
\* original's head and tail
cloneShared(m, i, j, fn) ==
  IF fn = "notfn" THEN Throw(m, "TypeError")
  ELSE Ok([m EXCEPT !.lists[j] = m.lists[i]], j)

\* j = i.clone(deepCloneFn): the copy is built aside and, when clone returns
\* it, takes the place of container j; when clone throws, the copy is dropped
\* and j is the container it was
clone(m, i, j, fn) ==
  LET m0 == [m EXCEPT !.lists[j] = [head |-> Null, tail |-> Null, length |-> 0,
                                    factory |-> m.lists[i].factory]]
      r == cloneLoop(Ok(m0, Null), j, fn, m.lists[i].head)
  IN IF fn = "notfn" THEN Throw(m, "TypeError")
     ELSE IF r.m.oom THEN Oom(m)
     ELSE IF r.threw # "none" THEN Throw(m, r.threw)
     ELSE Ok(r.m, j)

\* accessor, were peek to answer undefined on an empty container
accessorNoThrow(m, class, i, op) ==
  LET end == IF class = "Stack" THEN m.lists[i].tail ELSE m.lists[i].head
  IN CASE op \in {"top", "front", "peek"} ->
            IF isEmpty(m, i) THEN Ok(m, Null) ELSE Ok(m, m.nodes[end].val)
       [] op \in {"size", "length"} -> Ok(m, m.lists[i].length)
       [] op = "isEmpty" -> Ok(m, isEmpty(m, i))

\* The accessors of a Stack or Queue by name: the getter top of a Stack and
\* front of a Queue, peek(), size(), the getter length and isEmpty().  A
\* Stack reads the value at #tail, a Queue the one at #head.
accessor(m, class, i, op) ==
  LET end == IF class = "Stack" THEN m.lists[i].tail ELSE m.lists[i].head
  IN CASE op \in {"top", "front"} ->
            IF isEmpty(m, i) THEN Ok(m, Null)
            ELSE IF end = Null THEN Throw(m, "TypeError")
            ELSE Ok(m, m.nodes[end].val)
       [] op = "peek" ->
            IF isEmpty(m, i) THEN Throw(m, "Error")
            ELSE IF end = Null THEN Throw(m, "TypeError")
            ELSE Ok(m, m.nodes[end].val)
       [] op \in {"size", "length"} -> Ok(m, m.lists[i].length)
       [] op = "isEmpty" -> Ok(m, isEmpty(m, i))

\* backtrack(head1, head2) of equals, `calls` counting the invocations of the
\* comparator: none given (the default, a === b), (a, b) => true, or
\* (a, b) => a < b
RECURSIVE backtrack(_, _, _, _, _)
backtrack(m, head1, head2, comparator, calls) ==
  LET a == m.nodes[head1].val
      b == m.nodes[head2].val
      truthy == CASE comparator = "default" -> a = b
                  [] comparator = "always" -> TRUE
                  [] comparator = "less" -> a < b
  IN IF head1 = Null \/ head2 = Null
     THEN [m |-> m, ret |-> head1 = head2, threw |-> "none", calls |-> calls]
     ELSE IF ~truthy
     THEN [m |-> m, ret |-> FALSE, threw |-> "none", calls |-> calls + 1]
     ELSE backtrack(m, m.nodes[head1].next, m.nodes[head2].next, comparator, calls + 1)

\* equals, were it to compare the elements whatever the lengths
equalsAnyLength(m, stack1, stack2, comparator) ==
  IF ~(stack1 \in Lists /\ stack2 \in Lists)
  THEN [m |-> m, ret |-> Null, threw |-> "TypeError", calls |-> 0]
  ELSE IF m.lists[stack1].factory # m.lists[stack2].factory
  THEN [m |-> m, ret |-> FALSE, threw |-> "none", calls |-> 0]
  ELSE backtrack(m, m.lists[stack1].head, m.lists[stack2].head, comparator, 0)

\* Stack.equals(stack1, stack2, comparator), the arguments stacks 1, 2 or
\* null; Queue.equals makes the same three tests and the same backtrack
equals(m, stack1, stack2, comparator) ==
  IF ~(stack1 \in Lists /\ stack2 \in Lists)
  THEN [m |-> m, ret |-> Null, threw |-> "TypeError", calls |-> 0]
  ELSE IF m.lists[stack1].factory # m.lists[stack2].factory
  THEN [m |-> m, ret |-> FALSE, threw |-> "none", calls |-> 0]
  ELSE IF m.lists[stack1].length # m.lists[stack2].length
  THEN [m |-> m, ret |-> FALSE, threw |-> "none", calls |-> 0]
  ELSE backtrack(m, m.lists[stack1].head, m.lists[stack2].head, comparator, 0)

\* new Stack({ factory }) twice (new Queue({ factory }) twice, in the queue's
\* specification), each with or without a factory, in a store with room for
\* a container of two elements and its copy
EmptyInit ==
  /\ nodes = [a \in 1..(MaxNodes + 1) |-> [val |-> Null, prev |-> Null, next |-> Null]]
  /\ last = NoCall
  /\ after = 0
  /\ \E f \in [Lists -> Factories] :
       lists = [i \in Lists |-> [head |-> Null, tail |-> Null, length |-> 0,
                                 factory |-> f[i]]]
  /\ ghost = [i \in Lists |-> <<>>]
  /\ NoHeaps

Pushed(i, v) == ghost' = [ghost EXCEPT ![i] = Append(@, v)]

StackPush(i, v) ==
  /\ Commit(stackPush(M, i, v), "push")
  /\ Pushed(i, v)
  /\ UNCHANGED <<arrays, heaps>>

StackPop(i) ==
  /\ Commit(stackPop(M, i), "pop")
  /\ ghost' = [ghost EXCEPT ![i] = IF @ = <<>> THEN @ ELSE SubSeq(@, 1, Len(@) - 1)]
  /\ UNCHANGED <<arrays, heaps>>

\* a swap that succeeds exchanges what the two containers have been given
StackSwap(i, j) ==
  /\ Commit(stackSwap(M, i, j), "swap")
  /\ ghost' = IF last'.threw = "none"
              THEN [ghost EXCEPT ![i] = ghost[j], ![j] = ghost[i]] ELSE ghost
  /\ UNCHANGED <<arrays, heaps>>

StackClear(i) ==
  /\ Commit(stackClear(M, i), "clear")
  /\ ghost' = [ghost EXCEPT ![i] = <<>>]
  /\ UNCHANGED <<arrays, heaps>>

\* the values deepCloneFn returns for the values s
Cloned(fn, s) == [k \in 1..Len(s) |-> deepCloneFn(fn, s[k]).val]

\* container j becomes the copy clone returns
Clone(i, j, fn) ==
  /\ Commit(clone(M, i, j, fn), "clone")
  /\ ghost' = IF last'.threw = "none"
              THEN [ghost EXCEPT ![j] = Cloned(fn, ghost[i])] ELSE ghost
  /\ UNCHANGED <<arrays, heaps>>

Equals(i, j, comparator) ==
  /\ Commit(equals(M, i, j, comparator), "equals")
  /\ UNCHANGED <<ghost, arrays, heaps>>

Access(class, i, op) ==
  /\ Commit(accessor(M, class, i, op), op)
  /\ UNCHANGED <<ghost, arrays, heaps>>

StackNext ==
  \/ \E i \in Lists, op \in {"top", "peek", "size", "length", "isEmpty"} :
       Access("Stack", i, op)
  \/ \E i \in ListArgs, j \in ListArgs, comparator \in {"default", "always", "less"} :
       Equals(i, j, comparator)
  \/ \E i \in Lists, v \in Vals : StackPush(i, v)
  \/ \E i \in Lists : StackPop(i)
  \/ \E i \in ListArgs, j \in ListArgs : StackSwap(i, j)
  \/ \E i \in Lists : StackClear(i)
  \/ \E i \in Lists : \E j \in Lists \ {i}, fn \in CloneFns : Clone(i, j, fn)

SpecStack == EmptyInit /\ [][StackNext]_vars

\* C3: each pop of a Stack returns the most recently pushed value not yet
\* popped (and throws only when there is none), and the stack is empty
\* exactly when every pushed value has been popped.
C3_StackLifo ==
  [][\A i \in Lists :
       (last'.op = "pop" /\ StackPop(i))
       => IF ghost[i] = <<>>
          THEN last'.threw = "Error"
          ELSE /\ last'.threw = "none"
               /\ last'.ret = ghost[i][Len(ghost[i])]
               /\ isEmpty(M', i) = (ghost'[i] = <<>>)]_vars

\* 1 and then 2 were pushed on a stack, and pop has returned the 2
C3_Witness ==
  /\ last.op = "pop" /\ last.threw = "none" /\ last.ret = 2
  /\ \E i \in Lists : ghost[i] = <<1>>

\* C24: swap(A, B) on two stacks with the same factory, or both without
\* one, exchanges their contents and lengths; when the factories differ or
\* an argument is not a stack it throws TypeError and both are unchanged.
C24_StackSwap ==
  [][\A i \in ListArgs, j \in ListArgs :
       (last'.op = "swap" /\ StackSwap(i, j))
       => IF i \in Lists /\ j \in Lists /\ lists[i].factory = lists[j].factory
          THEN /\ last'.threw = "none"
               /\ toArray(M', i) = toArray(M, j) /\ toArray(M', j) = toArray(M, i)
               /\ lists'[i].length = lists[j].length
               /\ lists'[j].length = lists[i].length
               /\ lists'[i].factory = lists[i].factory
          ELSE last'.threw = "TypeError" /\ Snapshot(M') = Snapshot(M)]_vars

\* two stacks that hold different values, one more than the other, have
\* been swapped
C24_Witness ==
  /\ last.op = "swap" /\ last.threw = "none"
  /\ toArray(M, 1) = <<1, 2>> /\ toArray(M, 2) = <<2>>
  /\ ghost[1] = <<1, 2>>

Truthy(comparator, a, b) ==
  CASE comparator = "default" -> a = b
    [] comparator = "always" -> TRUE
    [] comparator = "less" -> a < b

\* C29: equals(A, B, cmp) returns true exactly when A and B have the same
\* factory and the same length and cmp(a_i, b_i) is truthy at every position
\* i (a_i === b_i by default); the comparator is invoked once for each
\* position up to and including the first whose elements it finds unequal,
\* and not at all when the factories or the lengths differ; neither
\* container is modified.  Stated of the result of each call in each
\* reachable state.
C29_Equals ==
  \A i \in Lists, j \in Lists, comparator \in {"default", "always", "less"} :
    LET r == equals(M, i, j, comparator)
        a == toArray(M, i)
        b == toArray(M, j)
        alike == lists[i].factory = lists[j].factory /\ Len(a) = Len(b)
        unequal == IF alike THEN {k \in 1..Len(a) : ~Truthy(comparator, a[k], b[k])}
                   ELSE {}
    IN /\ r.threw = "none"
       /\ r.ret = (alike /\ unequal = {})
       /\ r.calls = IF ~alike THEN 0
                    ELSE IF unequal = {} THEN Len(a) ELSE Min(unequal)
       /\ r.m = M

\* equals has found two stacks equal that hold the same two values
C29_Witness ==
  /\ last.op = "equals" /\ last.threw = "none" /\ last.ret = TRUE
  /\ toArray(M, 1) = <<1, 2>> /\ toArray(M, 2) = <<1, 2>>

(***************************************************************************)
(* Queue: push, pop                                                         *)
(***************************************************************************)
queuePush(m, i, value) ==
  LET a == Alloc(m)
      m1 == [m EXCEPT !.nodes[a] = ListNode(value)]
      t == m.lists[i].tail
  IN IF a = Null THEN Oom(m)
     ELSE IF isEmpty(m, i)
     THEN Ok([m1 EXCEPT !.lists[i].head = a, !.lists[i].tail = a,
                        !.lists[i].length = @ + 1], Null)
     ELSE IF t = Null THEN Throw([m1 EXCEPT !.nodes[a].prev = t], "TypeError")
     ELSE Ok([m1 EXCEPT !.nodes[a].prev = t, !.nodes[t].next = a,
                        !.lists[i].tail = a, !.lists[i].length = @ + 1], Null)

\* a faulty pop that takes the node at #tail, the newest element
queuePopTail(m, i) == popBack(m, i)

queuePop(m, i) ==
  LET L == m.lists[i]
      peek == L.head
      peekVal == m.nodes[peek].val
      nh == m.nodes[peek].next
      m1 == [m EXCEPT !.lists[i].head = nh]
  IN IF isEmpty(m, i) THEN Throw(m, "Error")
     ELSE IF peek = Null THEN Throw(m, "TypeError")
     ELSE IF L.length = 1
     THEN Ok([cleanup([m EXCEPT !.lists[i].head = Null, !.lists[i].tail = Null], peek)
                EXCEPT !.lists[i].length = @ - 1], peekVal)
     ELSE IF nh = Null THEN Throw(m1, "TypeError")
     ELSE Ok([cleanup([m1 EXCEPT !.nodes[nh].prev = Null], peek)
                EXCEPT !.lists[i].length = @ - 1], peekVal)

QueuePush(i, v) ==
  /\ Commit(queuePush(M, i, v), "push")
  /\ Pushed(i, v)
  /\ UNCHANGED <<arrays, heaps>>

QueuePop(i) ==
  /\ Commit(queuePop(M, i), "pop")
  /\ ghost' = [ghost EXCEPT ![i] = IF @ = <<>> THEN @ ELSE Tail(@)]
  /\ UNCHANGED <<arrays, heaps>>

\* Queue.swap(queue1, queue2): statement for statement Stack.swap
QueueSwap(i, j) == StackSwap(i, j)

QueueNext ==
  \/ \E i \in Lists, op \in {"front", "peek", "size", "length", "isEmpty"} :
       Access("Queue", i, op)
  \/ \E i \in ListArgs, j \in ListArgs, comparator \in {"default", "always", "less"} :
       Equals(i, j, comparator)
  \/ \E i \in Lists, v \in Vals : QueuePush(i, v)
  \/ \E i \in Lists : QueuePop(i)
  \/ \E i \in ListArgs, j \in ListArgs : QueueSwap(i, j)
  \/ \E i \in Lists : StackClear(i)
  \/ \E i \in Lists : \E j \in Lists \ {i}, fn \in CloneFns : Clone(i, j, fn)

SpecQueue == EmptyInit /\ [][QueueNext]_vars

\* C4: each pop of a Queue returns the oldest pushed value not yet popped
\* (and throws only when there is none), and the queue is empty exactly when
\* every pushed value has been popped.
C4_QueueFifo ==
  [][\A i \in Lists :
       (last'.op = "pop" /\ QueuePop(i))
       => IF ghost[i] = <<>>
          THEN last'.threw = "Error"
          ELSE /\ last'.threw = "none"
               /\ last'.ret = ghost[i][1]
               /\ isEmpty(M', i) = (ghost'[i] = <<>>)]_vars

\* 1 and then 2 were pushed on a queue, and pop has returned the 1
C4_Witness ==
  /\ last.op = "pop" /\ last.threw = "none" /\ last.ret = 1
  /\ \E i \in Lists : ghost[i] = <<2>>

\* C24 for Queue.swap: the same exchange, and the same refusals.
C24_QueueSwap ==
  [][\A i \in ListArgs, j \in ListArgs :
       (last'.op = "swap" /\ QueueSwap(i, j))
       => IF i \in Lists /\ j \in Lists /\ lists[i].factory = lists[j].factory
          THEN /\ last'.threw = "none"
               /\ toArray(M', i) = toArray(M, j) /\ toArray(M', j) = toArray(M, i)
               /\ lists'[i].length = lists[j].length
               /\ lists'[j].length = lists[i].length
          ELSE last'.threw = "TypeError" /\ Snapshot(M') = Snapshot(M)]_vars

\* C28 for Queue.clone: the same copy, the same refusals, and a push, pop or
\* clear on one queue leaves the other as it was.
C28_QueueClone ==
  [][/\ \A i \in Lists : \A j \in Lists \ {i}, fn \in CloneFns :
          (last'.op = "clone" /\ Clone(i, j, fn))
          => IF fn = "notfn" \/ \E v \in Range(toArray(M, i)) : deepCloneFn(fn, v).threw
             THEN /\ last'.threw = IF fn = "notfn" THEN "TypeError" ELSE "Thrown"
                  /\ Snapshot(M') = Snapshot(M)
             ELSE /\ last'.threw = "none"
                  /\ toArray(M', j) = Cloned(fn, toArray(M, i))
                  /\ lists'[j].length = lists[i].length
                  /\ lists'[j].factory = lists[i].factory
                  /\ toArray(M', i) = toArray(M, i)
                  /\ Range(Chain(M', i)) \cap Range(Chain(M', j)) = {}
     /\ \A i \in Lists :
          (/\ last'.op \in {"push", "pop", "clear"}
           /\ (\E v \in Vals : QueuePush(i, v)) \/ QueuePop(i) \/ StackClear(i))
          => \A j \in Lists \ {i} : toArray(M', j) = toArray(M, j)]_vars

(***************************************************************************)
(* Deque: pushFront, pushBack and the static swap.  A Deque keeps #head,    *)
(* #tail, #length and #factory over ListNodes; its pushFront and pushBack   *)
(* are statement for statement those of LinkedList, and its swap tests the  *)
(* two arguments with instanceof and exchanges the three fields, as         *)
(* LinkedList.swap does.                                                    *)
(***************************************************************************)
DequePushFront(i, v) ==
  Commit(pushFront(M, i, v), "pushFront") /\ ListFrame

DequePushBack(i, v) ==
  Commit(pushBack(M, i, v), "pushBack") /\ ListFrame

DequeSwap(i, j) ==
  Commit(swap(M, i, j), "swap") /\ ListFrame

\* Deque.at(index): undefined on an empty deque or an index outside
\* 0..length-1, else the value of the node met after index steps from #head,
\* undefined when the chain ends first
at(m, i, index) ==
  LET node == Advance(m, m.lists[i].head, index)
  IN IF isEmpty(m, i) \/ index < 0 \/ index >= m.lists[i].length THEN Ok(m, Null)
     ELSE IF node = Null THEN Ok(m, Null)
     ELSE Ok(m, m.nodes[node].val)

\* Deque.emplaceBack(...args): the element is made by #factory when there is
\* one, and is args[0] itself when there is none
dequeEmplaceBack(m, i, arg) ==
  LET made == factoryCall(m.lists[i].factory, arg)
  IN IF m.lists[i].factory # "none"
     THEN IF made.threw THEN Throw(m, "Thrown") ELSE pushBack(m, i, made.val)
     ELSE pushBack(m, i, arg)

DequeNext ==
  \/ \E i \in Lists, v \in Vals : DequePushFront(i, v)
  \/ \E i \in Lists, v \in Vals : DequePushBack(i, v)
  \/ \E i \in ListArgs, j \in ListArgs : DequeSwap(i, j)

SpecDeque == EmptyInit /\ [][DequeNext]_vars

\* C35, node-linked containers: the getters front and back, at(index),
\* forEach with a callback that changes nothing, equals and a full iteration
\* leave the store as it was, whether they return or throw, and at(index) is
\* the element toArray() has at index.
C35_ListReads ==
  \A i \in Lists :
    /\ getFront(M, i).m = M /\ getBack(M, i).m = M
    /\ \A callback \in Callbacks : forEach(M, i, callback).m = M
    /\ \A class \in {"Stack", "Queue"},
          op \in {"top", "front", "peek", "size", "length", "isEmpty"} :
         accessor(M, class, i, op).m = M
    /\ \A j \in Lists, comparator \in {"default", "always", "less"} :
         equals(M, i, j, comparator).m = M
    /\ \A index \in -1..(MaxNodes + 1) :
         LET r == at(M, i, index)
         IN /\ r.m = M /\ r.threw = "none"
            /\ WellFormed(M, i)
               => r.ret = IF index \in 0..Len(toArray(M, i)) - 1
                          THEN toArray(M, i)[index + 1] ELSE Null
    /\ \A dir \in {"next", "prev"} :
         iteratorRun(M, Iterator(i, dir), MaxNodes + 2).it.list = i

\* C40, Deque: Deque.swap exchanges only #head, #tail and #length, so after
\* swap(A, B) emplaceBack on A makes its element with A's own factory, and
\* with none pushes its argument as it is, as it did before the swap.
C40_DequeSwapKeepsFactory ==
  \A A \in Lists, B \in Lists :
    LET r == swap(M, A, B)
        own == lists[A].factory
    IN /\ r.threw = "none"
       /\ r.m.lists[A].factory = own
       /\ \A arg \in Vals :
            LET back == dequeEmplaceBack(r.m, A, arg)
            IN ~back.m.oom
               => /\ back.threw = "none"
                  /\ toArray(back.m, A)
                       = toArray(M, B) \o <<IF own = "none" THEN arg
                                            ELSE factoryCall(own, arg).val>>

\* C25: Deque.swap(A, B) on two deques built with different factories
\* fails with an error and leaves both deques unchanged.
C25_DequeSwap ==
  [][\A i \in Lists, j \in Lists :
       (last'.op = "swap" /\ lists[i].factory # lists[j].factory /\ DequeSwap(i, j))
       => last'.threw # "none" /\ Snapshot(M') = Snapshot(M)]_vars

(***************************************************************************)
(* Heap.  A JavaScript array lives in the store `arrays` under a reference; *)
(* a Heap object h holds the reference of its #nodes array, its #compareFn  *)
(* and its #factory.  An operation takes the store a and the object h and   *)
(* gives the store it leaves, with what it returned or threw.               *)
(***************************************************************************)
MaxItem == 3

MaxHeap == 5

\* the numbers an array can hold, and a value that is not a number
Numbers == 1..MaxItem

NotNumber == MaxItem + 1

Items == Numbers \cup {NotNumber}

AOk(a, ret) == [a |-> a, ret |-> ret, threw |-> "none"]

AThrow(a, kind) == [a |-> a, ret |-> Null, threw |-> kind]

\* The comparators: the default one of the constructor, and three the
\* caller may supply, (a, b) => b - a, one that throws on a value it does
\* not accept, and (a, b) => floor(a / 2) - floor(b / 2), under which
\* different items tie.
\* compareFnLoose: a default comparator that subtracts whatever it is given.
compareFnLoose(kind, a, b) ==
  CASE kind = "default" -> [val |-> a - b, threw |-> "none"]
    [] kind = "min" -> [val |-> b - a, threw |-> "none"]
    [] kind = "coarse" -> [val |-> (a \div 2) - (b \div 2), threw |-> "none"]
    [] kind = "throws" ->
         IF a \in Numbers /\ b \in Numbers
         THEN [val |-> a - b, threw |-> "none"]
         ELSE [val |-> 0, threw |-> "Thrown"]

compareFn(kind, a, b) ==
  CASE kind = "default" ->
         IF a \in Numbers /\ b \in Numbers
         THEN [val |-> a - b, threw |-> "none"]
         ELSE [val |-> 0, threw |-> "TypeError"]
    [] kind = "min" -> [val |-> b - a, threw |-> "none"]
    [] kind = "coarse" -> [val |-> (a \div 2) - (b \div 2), threw |-> "none"]
    [] kind = "throws" ->
         IF a \in Numbers /\ b \in Numbers
         THEN [val |-> a - b, threw |-> "none"]
         ELSE [val |-> 0, threw |-> "Thrown"]

heapSwap(a, h, i, j) ==
  [a EXCEPT ![h.nodes] = [@ EXCEPT ![i + 1] = a[h.nodes][j + 1],
                                     ![j + 1] = a[h.nodes][i + 1]]]

\* a faulty sift-down that leaves the array as it is
heapifyDownSkip(a, h, cIdx) == [a |-> a, threw |-> "none"]

RECURSIVE heapifyDown(_, _, _)
heapifyDown(a, h, cIdx) ==
  LET arr == a[h.nodes]
      len == Len(arr)
      lIdx == 2 * cIdx + 1
      rIdx == 2 * cIdx + 2
      c1 == compareFn(h.compareFn, arr[cIdx + 1], arr[lIdx + 1])
      best1 == IF lIdx < len /\ c1.val < 0 THEN lIdx ELSE cIdx
      c2 == compareFn(h.compareFn, arr[best1 + 1], arr[rIdx + 1])
      best == IF rIdx < len /\ c2.val < 0 THEN rIdx ELSE best1
  IN IF lIdx < len /\ c1.threw # "none" THEN [a |-> a, threw |-> c1.threw]
     ELSE IF rIdx < len /\ c2.threw # "none" THEN [a |-> a, threw |-> c2.threw]
     ELSE IF best = cIdx THEN [a |-> a, threw |-> "none"]
     ELSE heapifyDown(heapSwap(a, h, best, cIdx), h, best)

\* a faulty sift-up that leaves the array as it is
heapifyUpSkip(a, h, cIdx) == [a |-> a, threw |-> "none"]

\* a faulty sift-up that also swaps a child that ties with its parent
heapifyUpTies(a, h, cIdx) ==
  LET pIdx == ((cIdx + 1) \div 2) - 1
      c == compareFn(h.compareFn, a[h.nodes][cIdx + 1], a[h.nodes][pIdx + 1])
  IN IF ~(cIdx > 0) THEN [a |-> a, threw |-> "none"]
     ELSE IF c.threw # "none" THEN [a |-> a, threw |-> c.threw]
     ELSE IF c.val < 0 THEN [a |-> a, threw |-> "none"]
     ELSE [a |-> heapSwap(a, h, pIdx, cIdx), threw |-> "none"]

RECURSIVE heapifyUp(_, _, _)
heapifyUp(a, h, cIdx) ==
  LET pIdx == ((cIdx + 1) \div 2) - 1
      c == compareFn(h.compareFn, a[h.nodes][cIdx + 1], a[h.nodes][pIdx + 1])
  IN IF ~(cIdx > 0) THEN [a |-> a, threw |-> "none"]
     ELSE IF c.threw # "none" THEN [a |-> a, threw |-> c.threw]
     ELSE IF c.val <= 0 THEN [a |-> a, threw |-> "none"]
     ELSE heapifyUp(heapSwap(a, h, pIdx, cIdx), h, pIdx)

\* the constructor's loop: for (i = floor(len / 2) - 1; i >= 0; i--)
\* a faulty construction loop that sifts down from the root only
heapifyAllRootOnly(a, h, i) == heapifyDown(a, h, 0)

RECURSIVE heapifyAll(_, _, _)
heapifyAll(a, h, i) ==
  LET r == heapifyDown(a, h, i)
  IN IF ~(i >= 0) THEN [a |-> a, threw |-> "none"]
     ELSE IF r.threw # "none" THEN r
     ELSE heapifyAll(r.a, h, i - 1)

\* a faulty constructor that keeps the caller's array instead of a copy
newHeapShared(a, self, initValues, cmp, factory) ==
  LET h == [class |-> "Heap", nodes |-> initValues, compareFn |-> cmp,
            factory |-> factory]
      r == heapifyAll(a, h, (Len(a[initValues]) \div 2) - 1)
  IN [a |-> r.a, h |-> h, threw |-> r.threw]

\* new Heap({ initValues, compareFn, factory }): the object `self`, whose
\* #nodes is a new array, a copy of the array initValues refers to
newHeap(a, self, initValues, cmp, factory) ==
  LET h == [class |-> "Heap", nodes |-> self, compareFn |-> cmp, factory |-> factory]
      a1 == [a EXCEPT ![self] = IF initValues = "undefined" THEN <<>> ELSE a[initValues]]
      len == Len(a1[self])
      r == IF len > 1 THEN heapifyAll(a1, h, (len \div 2) - 1)
           ELSE [a |-> a1, threw |-> "none"]
  IN [a |-> r.a, h |-> h, threw |-> r.threw]

heapIsEmpty(a, h) == Len(a[h.nodes]) = 0

heapPush(a, h, node) ==
  LET a1 == [a EXCEPT ![h.nodes] = Append(@, node)]
      cIdx == Len(a1[h.nodes]) - 1
      r == heapifyUp(a1, h, cIdx)
  IN [a |-> r.a, ret |-> Null, threw |-> r.threw]

heapEmplace(a, h, arg) ==
  LET f == factoryCall(h.factory, arg)
  IN IF h.factory = "none" THEN AThrow(a, "Error")
     ELSE IF f.threw THEN AThrow(a, "Thrown")
     ELSE heapPush(a, h, f.val)

\* replace, were it to return the root it leaves rather than the one it took
heapReplaceNewRoot(a, h, node) ==
  LET r == heapifyDown([a EXCEPT ![h.nodes][1] = node], h, 0)
  IN IF heapIsEmpty(a, h) THEN AThrow(a, "Error")
     ELSE IF r.threw # "none" THEN AThrow(r.a, r.threw)
     ELSE AOk(r.a, r.a[h.nodes][1])

heapReplace(a, h, node) ==
  LET root == a[h.nodes][1]
      r == heapifyDown([a EXCEPT ![h.nodes][1] = node], h, 0)
  IN IF heapIsEmpty(a, h) THEN AThrow(a, "Error")
     ELSE IF r.threw # "none" THEN AThrow(r.a, r.threw)
     ELSE AOk(r.a, root)

\* pop, were it to take the last item of the array and leave the root
heapPopLast(a, h) ==
  LET arr == a[h.nodes]
  IN IF heapIsEmpty(a, h) THEN AThrow(a, "Error")
     ELSE AOk([a EXCEPT ![h.nodes] = SubSeq(arr, 1, Len(arr) - 1)], arr[Len(arr)])

heapPop(a, h) ==
  LET arr == a[h.nodes]
      len == Len(arr)
      root == arr[1]
      a1 == [a EXCEPT ![h.nodes] = [SubSeq(arr, 1, len - 1) EXCEPT ![1] = arr[len]]]
      r == heapifyDown(a1, h, 0)
  IN IF heapIsEmpty(a, h) THEN AThrow(a, "Error")
     ELSE IF len = 1 THEN AOk([a EXCEPT ![h.nodes] = <<>>], arr[1])
     ELSE IF r.threw # "none" THEN AThrow(r.a, r.threw)
     ELSE AOk(r.a, root)

heapClear(a, h) == AOk([a EXCEPT ![h.nodes] = <<>>], Null)

(***************************************************************************)
(* PriorityQueue: the same binary heap, kept in its own #heap array         *)
(***************************************************************************)
pqSwap(a, h, i, j) ==
  [a EXCEPT ![h.heap] = [@ EXCEPT ![i + 1] = a[h.heap][j + 1],
                                     ![j + 1] = a[h.heap][i + 1]]]

RECURSIVE pqHeapifyDown(_, _, _)
pqHeapifyDown(a, h, cIdx) ==
  LET arr == a[h.heap]
      len == Len(arr)
      lIdx == 2 * cIdx + 1
      rIdx == 2 * cIdx + 2
      c1 == compareFn(h.compareFn, arr[cIdx + 1], arr[lIdx + 1])
      best1 == IF lIdx < len /\ c1.val < 0 THEN lIdx ELSE cIdx
      c2 == compareFn(h.compareFn, arr[best1 + 1], arr[rIdx + 1])
      best == IF rIdx < len /\ c2.val < 0 THEN rIdx ELSE best1
  IN IF lIdx < len /\ c1.threw # "none" THEN [a |-> a, threw |-> c1.threw]
     ELSE IF rIdx < len /\ c2.threw # "none" THEN [a |-> a, threw |-> c2.threw]
     ELSE IF best = cIdx THEN [a |-> a, threw |-> "none"]
     ELSE pqHeapifyDown(pqSwap(a, h, best, cIdx), h, best)

RECURSIVE pqHeapifyUp(_, _, _)
pqHeapifyUp(a, h, cIdx) ==
  LET pIdx == ((cIdx + 1) \div 2) - 1
      c == compareFn(h.compareFn, a[h.heap][cIdx + 1], a[h.heap][pIdx + 1])
  IN IF ~(cIdx > 0) THEN [a |-> a, threw |-> "none"]
     ELSE IF c.threw # "none" THEN [a |-> a, threw |-> c.threw]
     ELSE IF c.val <= 0 THEN [a |-> a, threw |-> "none"]
     ELSE pqHeapifyUp(pqSwap(a, h, pIdx, cIdx), h, pIdx)

\* the constructor's loop: for (i = floor(len / 2) - 1; i >= 0; i--)
RECURSIVE pqHeapifyAll(_, _, _)
pqHeapifyAll(a, h, i) ==
  LET r == pqHeapifyDown(a, h, i)
  IN IF ~(i >= 0) THEN [a |-> a, threw |-> "none"]
     ELSE IF r.threw # "none" THEN r
     ELSE pqHeapifyAll(r.a, h, i - 1)

\* new PriorityQueue({ initValues, compareFn, factory }): #heap is the array
\* initValues refers to, or a new empty array (that of `self`) without one
newPriorityQueue(a, self, initValues, cmp, factory) ==
  LET h == [class |-> "PriorityQueue",
            heap |-> IF initValues = "undefined" THEN self ELSE initValues,
            compareFn |-> cmp, factory |-> factory]
      a1 == IF initValues = "undefined" THEN [a EXCEPT ![self] = <<>>] ELSE a
      len == Len(a1[h.heap])
      r == IF len > 1 THEN pqHeapifyAll(a1, h, (len \div 2) - 1)
           ELSE [a |-> a1, threw |-> "none"]
  IN [a |-> r.a, h |-> h, threw |-> r.threw]

pqIsEmpty(a, h) == Len(a[h.heap]) = 0

pqPush(a, h, node) ==
  LET a1 == [a EXCEPT ![h.heap] = Append(@, node)]
      cIdx == Len(a1[h.heap]) - 1
      r == pqHeapifyUp(a1, h, cIdx)
  IN [a |-> r.a, ret |-> Null, threw |-> r.threw]

pqEmplace(a, h, arg) ==
  LET f == factoryCall(h.factory, arg)
  IN IF h.factory = "none" THEN AThrow(a, "Error")
     ELSE IF f.threw THEN AThrow(a, "Thrown")
     ELSE pqPush(a, h, f.val)

pqReplace(a, h, node) ==
  LET peek == a[h.heap][1]
      r == pqHeapifyDown([a EXCEPT ![h.heap][1] = node], h, 0)
  IN IF pqIsEmpty(a, h) THEN AThrow(a, "Error")
     ELSE IF r.threw # "none" THEN AThrow(r.a, r.threw)
     ELSE AOk(r.a, peek)

pqPop(a, h) ==
  LET arr == a[h.heap]
      len == Len(arr)
      peek == arr[1]
      a1 == [a EXCEPT ![h.heap] = [SubSeq(arr, 1, len - 1) EXCEPT ![1] = arr[len]]]
      r == pqHeapifyDown(a1, h, 0)
  IN IF pqIsEmpty(a, h) THEN AThrow(a, "Error")
     ELSE IF len = 1 THEN AOk([a EXCEPT ![h.heap] = <<>>], arr[1])
     ELSE IF r.threw # "none" THEN AThrow(r.a, r.threw)
     ELSE AOk(r.a, peek)

pqClear(a, h) == AOk([a EXCEPT ![h.heap] = <<>>], Null)

(***************************************************************************)
(* The state of the heaps: `arrays` is the store of JavaScript arrays by    *)
(* reference, `heaps` the Heap and PriorityQueue objects.                   *)
(***************************************************************************)
\* the arrays of up to n items drawn from S
ArraysOf(S, n) == UNION {[1..len -> S] : len \in 0..n}

Contents(k) ==
  arrays[IF heaps[k].class = "Heap" THEN heaps[k].nodes ELSE heaps[k].heap]

\* The longest array the model follows: MaxHeap for a heap on its own, MaxArr
\* where the caller's array and several containers are followed together.
Cap == IF "caller" \in DOMAIN arrays THEN MaxArr ELSE MaxHeap

\* The call `op` ends with result r, the arrays left as r.a.
HeapCommit(r, op) ==
  /\ \A x \in DOMAIN r.a : Len(r.a[x]) <= Cap
  /\ arrays' = r.a
  /\ last' = [op |-> op, ret |-> r.ret, threw |-> r.threw]
  /\ UNCHANGED <<nodes, lists, after, ghost, heaps>>

NoLists ==
  /\ InitStore
  /\ lists = <<>>
  /\ ghost = <<>>

\* new Heap({ initValues: [...], compareFn, factory }) or new PriorityQueue
\* of the same, the array a literal that nothing else refers to: the store
\* keeps the one array the object holds
HeapInitOf(S, kinds) ==
  \E class \in {"Heap", "PriorityQueue"}, init \in ArraysOf(S, MaxHeap),
     cmp \in kinds, factory \in Factories :
    LET a0 == [x \in {"literal", "heap"} |-> IF x = "heap" THEN <<>> ELSE init]
        r == IF class = "Heap" THEN newHeap(a0, "heap", "literal", cmp, factory)
             ELSE newPriorityQueue(a0, "heap", "literal", cmp, factory)
        ref == IF class = "Heap" THEN r.h.nodes ELSE r.h.heap
    IN /\ r.threw = "none"
       /\ arrays = [x \in {ref} |-> r.a[x]]
       /\ heaps = [x \in {"heap"} |-> r.h]
       /\ NoLists

HeapPush(k, node) ==
  /\ heaps[k].class = "Heap"
  /\ HeapCommit(heapPush(arrays, heaps[k], node), "push")

HeapEmplace(k, arg) ==
  /\ heaps[k].class = "Heap"
  /\ HeapCommit(heapEmplace(arrays, heaps[k], arg), "emplace")

HeapReplace(k, node) ==
  /\ heaps[k].class = "Heap"
  /\ HeapCommit(heapReplace(arrays, heaps[k], node), "replace")

HeapPop(k) ==
  /\ heaps[k].class = "Heap"
  /\ HeapCommit(heapPop(arrays, heaps[k]), "pop")

HeapClear(k) ==
  /\ heaps[k].class = "Heap"
  /\ HeapCommit(heapClear(arrays, heaps[k]), "clear")

PQPush(k, node) ==
  /\ heaps[k].class = "PriorityQueue"
  /\ HeapCommit(pqPush(arrays, heaps[k], node), "push")

PQEmplace(k, arg) ==
  /\ heaps[k].class = "PriorityQueue"
  /\ HeapCommit(pqEmplace(arrays, heaps[k], arg), "emplace")

PQReplace(k, node) ==
  /\ heaps[k].class = "PriorityQueue"
  /\ HeapCommit(pqReplace(arrays, heaps[k], node), "replace")

PQPop(k) ==
  /\ heaps[k].class = "PriorityQueue"
  /\ HeapCommit(pqPop(arrays, heaps[k]), "pop")

PQClear(k) ==
  /\ heaps[k].class = "PriorityQueue"
  /\ HeapCommit(pqClear(arrays, heaps[k]), "clear")

\* a heap of numbers, under the default comparator or (a, b) => b - a
HeapInit == HeapInitOf(Numbers, {"default", "min"})

HeapNext ==
  \/ \E k \in DOMAIN heaps, node \in Numbers : HeapPush(k, node)
  \/ \E k \in DOMAIN heaps, arg \in Vals \cup {Null} : HeapEmplace(k, arg)
  \/ \E k \in DOMAIN heaps, node \in Numbers : HeapReplace(k, node)
  \/ \E k \in DOMAIN heaps : HeapPop(k)
  \/ \E k \in DOMAIN heaps : HeapClear(k)
  \/ \E k \in DOMAIN heaps, node \in Numbers : PQPush(k, node)
  \/ \E k \in DOMAIN heaps, arg \in Vals \cup {Null} : PQEmplace(k, arg)
  \/ \E k \in DOMAIN heaps, node \in Numbers : PQReplace(k, node)
  \/ \E k \in DOMAIN heaps : PQPop(k)
  \/ \E k \in DOMAIN heaps : PQClear(k)

SpecHeap == HeapInit /\ [][HeapNext]_vars

\* a heap given any items, under the default comparator or one that throws
HeapAnyInit == HeapInitOf(Items, {"default", "throws"})

HeapAnyNext ==
  \/ \E k \in DOMAIN heaps, node \in Items : HeapPush(k, node)
  \/ \E k \in DOMAIN heaps, arg \in Vals \cup {Null} : HeapEmplace(k, arg)
  \/ \E k \in DOMAIN heaps, node \in Items : HeapReplace(k, node)
  \/ \E k \in DOMAIN heaps : HeapPop(k)
  \/ \E k \in DOMAIN heaps : HeapClear(k)
  \/ \E k \in DOMAIN heaps, node \in Items : PQPush(k, node)
  \/ \E k \in DOMAIN heaps, arg \in Vals \cup {Null} : PQEmplace(k, arg)
  \/ \E k \in DOMAIN heaps, node \in Items : PQReplace(k, node)
  \/ \E k \in DOMAIN heaps : PQPop(k)
  \/ \E k \in DOMAIN heaps : PQClear(k)

SpecHeapAny == HeapAnyInit /\ [][HeapAnyNext]_vars

(***************************************************************************)
(* The public methods by name.  `h` is a Heap, an array-backed              *)
(* PriorityQueue, or the PriorityQueue that wraps a Heap in its #heap       *)
(* field and hands each call on to it; that one declares no toArray, so     *)
(* the call of it is a call of undefined.  undefined is Null.               *)
(***************************************************************************)
HeapOps == {"push", "emplace", "replace", "pop", "peek", "isEmpty", "clear",
            "size", "toArray"}

RECURSIVE heapCall(_, _, _, _)
heapCall(a, h, op, arg) ==
  LET isHeap == h.class = "Heap"
      store == IF isHeap THEN a[h.nodes] ELSE a[h.heap]
  IN IF h.class = "PriorityQueueOnHeap"
     THEN IF op = "toArray" THEN AThrow(a, "TypeError")
          ELSE heapCall(a, h.heap, op, arg)
     ELSE CASE op = "push" -> IF isHeap THEN heapPush(a, h, arg) ELSE pqPush(a, h, arg)
            [] op = "emplace" -> IF isHeap THEN heapEmplace(a, h, arg) ELSE pqEmplace(a, h, arg)
            [] op = "replace" -> IF isHeap THEN heapReplace(a, h, arg) ELSE pqReplace(a, h, arg)
            [] op = "pop" -> IF isHeap THEN heapPop(a, h) ELSE pqPop(a, h)
            [] op = "clear" -> IF isHeap THEN heapClear(a, h) ELSE pqClear(a, h)
            [] op = "isEmpty" -> AOk(a, IF isHeap THEN heapIsEmpty(a, h) ELSE pqIsEmpty(a, h))
            [] op = "peek" -> AOk(a, IF store = <<>> THEN Null ELSE store[1])
            [] op = "size" -> AOk(a, Len(store))
            [] op = "toArray" -> AOk(a, store)

\* the arguments a call of op is made with
HeapArgs(op) ==
  CASE op \in {"push", "replace"} -> Items
    [] op = "emplace" -> Vals \cup {Null}
    [] OTHER -> {Null}

\* A Heap ("h"), an array-backed PriorityQueue ("pq") or a PriorityQueue on
\* a Heap ("on") with k's comparator and factory, its array the one named x
Twin(k, x) ==
  LET hp == [class |-> "Heap", nodes |-> x, compareFn |-> heaps[k].compareFn,
             factory |-> heaps[k].factory]
  IN CASE x = "h" -> hp
       [] x = "pq" -> [class |-> "PriorityQueue", heap |-> x,
                       compareFn |-> heaps[k].compareFn, factory |-> heaps[k].factory]
       [] x = "on" -> [class |-> "PriorityQueueOnHeap", heap |-> hp]

\* the call op(arg) gives the same on the twin x as on the Heap, each with its
\* own array holding what container k holds: it throws
\* the same, returns the same and leaves the same array contents
SameCall(k, x, op, arg) ==
  LET a == [y \in {"h", "pq", "on"} |-> Contents(k)]
      r1 == heapCall(a, Twin(k, "h"), op, arg)
      r2 == heapCall(a, Twin(k, x), op, arg)
  IN /\ r1.threw = r2.threw
     /\ r1.ret = r2.ret
     /\ r1.a["h"] = r2.a[x]

\* C27: a PriorityQueue and a Heap that hold the same array contents under
\* the same comparator and factory (as they do when constructed from the
\* same initial values, and then by induction after every step of a common
\* sequence of calls) return the same from each of push, pop, peek, replace,
\* emplace, isEmpty, clear, size and toArray, throw on the same calls and
\* hold the same array contents afterwards.  Stated of every array contents
\* a container reaches, for both PriorityQueue classes.
C27_SameAsHeap ==
  \A k \in DOMAIN heaps, op \in HeapOps, arg \in Items \cup {Null} :
    arg \in HeapArgs(op)
    => SameCall(k, "pq", op, arg) /\ SameCall(k, "on", op, arg)

\* C27 for the array-backed PriorityQueue, and for the PriorityQueue on a
\* Heap in every call but toArray
C27_ArrayBackedSameAsHeap ==
  \A k \in DOMAIN heaps, op \in HeapOps, arg \in Items \cup {Null} :
    arg \in HeapArgs(op)
    => /\ SameCall(k, "pq", op, arg)
       /\ op # "toArray" => SameCall(k, "on", op, arg)

\* an empty Heap, array-backed PriorityQueue or PriorityQueue on a Heap
\* answers peek() with undefined and throws Error from pop(), its array empty
\* as before
EmptyHeapOk(h) ==
  LET a == [x \in {"h"} |-> <<>>]
      peek == heapCall(a, h, "peek", Null)
      pop == heapCall(a, h, "pop", Null)
  IN /\ peek.threw = "none" /\ peek.ret = Null /\ peek.a = a
     /\ pop.threw = "Error" /\ pop.a = a

C33_StackClear ==
  \A i \in Lists, class \in {"Stack", "Queue"} :
    LET r == stackClear(M, i)
    IN /\ r.threw = "none"
       /\ accessor(r.m, class, i, "isEmpty").ret = TRUE
       /\ accessor(r.m, class, i, "size").ret = 0
       /\ accessor(r.m, class, i, "length").ret = 0
       /\ iterate(r.m, r.m.lists[i].head) = <<>>
       /\ \A j \in Lists \ {i} : r.m.lists[j] = M.lists[j]
       /\ \A v \in Vals :
            LET b == IF class = "Stack" THEN stackPush(r.m, i, v) ELSE queuePush(r.m, i, v)
                o == IF class = "Stack" THEN stackPop(b.m, i) ELSE queuePop(b.m, i)
            IN ~b.m.oom => /\ b.threw = "none" /\ accessor(b.m, class, i, "size").ret = 1
                           /\ o.threw = "none" /\ o.ret = v
                           /\ accessor(o.m, class, i, "isEmpty").ret = TRUE

\* C33, Heap and PriorityQueue: after clear() on a container in any reachable
\* state isEmpty() is true, size() is 0 and toArray() is empty, and an item
\* pushed next is the one pop() returns, whatever the comparator.
C33_HeapClear ==
  \A k \in DOMAIN heaps :
    LET h == heaps[k]
        r == heapCall(arrays, h, "clear", Null)
    IN /\ r.threw = "none"
       /\ heapCall(r.a, h, "isEmpty", Null).ret = TRUE
       /\ heapCall(r.a, h, "size", Null).ret = 0
       /\ heapCall(r.a, h, "toArray", Null).ret = <<>>
       /\ \A item \in Items :
            LET b == heapCall(r.a, h, "push", item)
                o == heapCall(b.a, h, "pop", Null)
            IN /\ b.threw = "none" /\ heapCall(b.a, h, "size", Null).ret = 1
               /\ o.threw = "none" /\ o.ret = item
               /\ heapCall(o.a, h, "isEmpty", Null).ret = TRUE

\* toArray(), were it to hand out the container's own array
toArrayShared(a, h, out) ==
  [a |-> a, ret |-> IF h.class = "Heap" THEN h.nodes ELSE h.heap, threw |-> "none"]

\* const out = h.toArray() on a Heap or an array-backed PriorityQueue: the
\* array returned is a new one, [...this.#nodes], named `out` in the store
heapToArray(a, h, out) ==
  LET store == IF h.class = "Heap" THEN a[h.nodes] ELSE a[h.heap]
  IN [a |-> [x \in DOMAIN a \cup {out} |-> IF x = out THEN store ELSE a[x]],
      ret |-> out, threw |-> "none"]

\* a statement of the caller on the array x: x[0] = v, x.push(v), x.length = 0
Writes == {[stmt |-> s, v |-> v] : s \in {"set", "push"}, v \in Items}
            \cup {[stmt |-> "length", v |-> Null]}

write(a, x, w) ==
  CASE w.stmt = "set" -> IF a[x] = <<>> THEN [a EXCEPT ![x] = <<w.v>>]
                         ELSE [a EXCEPT ![x][1] = w.v]
    [] w.stmt = "push" -> [a EXCEPT ![x] = Append(@, w.v)]
    [] w.stmt = "length" -> [a EXCEPT ![x] = <<>>]

C30_EmptyHeap ==
  \A k \in DOMAIN heaps :
    Contents(k) = <<>>
    => LET peek == heapCall(arrays, heaps[k], "peek", Null)
           pop == heapCall(arrays, heaps[k], "pop", Null)
       IN /\ peek.threw = "none" /\ peek.ret = Null /\ peek.a = arrays
          /\ pop.threw = "Error" /\ pop.a = arrays

HeapProperty(k) ==
  LET storage == Contents(k)
  IN \A i \in 0..(Len(storage) - 1) : \A c \in {2 * i + 1, 2 * i + 2} :
       c < Len(storage)
       => compareFn(heaps[k].compareFn, storage[i + 1], storage[c + 1]).val >= 0

SameItems(s, t) == \A v \in Items : Count(s, v) = Count(t, v)

\* the step has left in container k the items it held and those of `ins`,
\* less those of `ret`, and size() is their number
Ledger(k, ins, ret) ==
  /\ SameItems(Contents(k)' \o ret, Contents(k) \o ins)
  /\ Len(Contents(k)') = Len(Contents(k)) + Len(ins) - Len(ret)
  /\ heapCall(arrays', heaps[k], "size", Null).ret = Len(Contents(k)')

\* what a successful push, emplace, pop or replace on container k does to
\* the items it holds: push and emplace insert one, pop returns the item at
\* index 0, replace returns the item at index 0 and inserts its argument
LedgerStep(k) ==
  /\ \A node \in Items :
       (last'.op = "push" /\ (HeapPush(k, node) \/ PQPush(k, node)))
       => Ledger(k, <<node>>, <<>>)
  /\ \A arg \in Vals :
       (last'.op = "emplace" /\ (HeapEmplace(k, arg) \/ PQEmplace(k, arg)))
       => Ledger(k, <<factoryCall(heaps[k].factory, arg).val>>, <<>>)
  /\ (last'.op = "pop" /\ (HeapPop(k) \/ PQPop(k)))
       => last'.ret = Contents(k)[1] /\ Ledger(k, <<>>, <<last'.ret>>)
  /\ \A node \in Items :
       (last'.op = "replace" /\ (HeapReplace(k, node) \/ PQReplace(k, node)))
       => last'.ret = Contents(k)[1] /\ Ledger(k, <<node>>, <<last'.ret>>)

C15_Replace ==
  [][\A k \in DOMAIN heaps, v \in Numbers :
       (last'.op = "replace" /\ (HeapReplace(k, v) \/ PQReplace(k, v)))
       => IF Contents(k) = <<>>
          THEN last'.threw = "Error" /\ Contents(k)' = <<>>
          ELSE /\ last'.threw = "none"
               /\ last'.ret = Contents(k)[1]
               /\ Len(Contents(k)') = Len(Contents(k))
               /\ SameItems(Contents(k)' \o <<last'.ret>>, Contents(k) \o <<v>>)
               /\ HeapProperty(k)']_vars

\* a replace has put a value that outranks the old root on a heap of three
\* or more elements, under the default comparator
C15_Witness ==
  /\ last.op = "replace" /\ last.threw = "none"
  /\ \E k \in DOMAIN heaps :
       /\ heaps[k].compareFn = "default"
       /\ Len(Contents(k)) >= 3
       /\ Contents(k)[1] > last.ret

\* C19 for Heap and PriorityQueue: emplace on a heap built with a factory
\* adds the value the factory returns for the argument and keeps the heap
\* property; on a heap built without one it throws and changes nothing.
C19_HeapEmplace ==
  [][\A k \in DOMAIN heaps, arg \in Vals :
       (last'.op = "emplace" /\ (HeapEmplace(k, arg) \/ PQEmplace(k, arg)))
       => IF heaps[k].factory = "none"
          THEN last'.threw = "Error" /\ arrays' = arrays
          ELSE /\ last'.threw = "none"
               /\ SameItems(Contents(k)',
                            Append(Contents(k), factoryCall(heaps[k].factory, arg).val))
               /\ HeapProperty(k)']_vars

\* C9: a push, emplace, pop or replace that throws leaves the stored
\* elements, and so size(), as they were before the call.
C9_ThrowLeavesHeap ==
  [][last'.threw # "none" => arrays' = arrays]_vars

(***************************************************************************)
(* Construction: new Heap({ initValues: values, compareFn, factory }) and   *)
(* new PriorityQueue of the same, from an array `values` of any items, and  *)
(* the pushes of any items that follow.  `ghost` keeps the items of         *)
(* `values` as they were given.                                             *)
(***************************************************************************)
BuildInit ==
  /\ InitStore
  /\ lists = <<>>
  /\ heaps = <<>>
  /\ \E init \in ArraysOf(Items, MaxHeap) :
       /\ arrays = [x \in {"values"} |-> init]
       /\ ghost = init

\* The constructor ends with result r: the object exists when it did not
\* throw, and the store keeps the arrays that are still referred to.
BuildCommit(r, kept) ==
  /\ last.op = "init"
  /\ heaps' = IF r.threw = "none" THEN [x \in {"heap"} |-> r.h] ELSE heaps
  /\ arrays' = [x \in (IF r.threw = "none" THEN kept ELSE {"values"}) |-> r.a[x]]
  /\ last' = [op |-> "new", ret |-> Null, threw |-> r.threw]
  /\ UNCHANGED <<nodes, lists, after, ghost>>

NewHeap(cmp, factory) ==
  LET a0 == [x \in {"values", "heap"} |-> IF x = "values" THEN arrays["values"] ELSE <<>>]
  IN BuildCommit(newHeap(a0, "heap", "values", cmp, factory), {"values", "heap"})

NewPriorityQueue(cmp, factory) ==
  LET a0 == [x \in {"values", "heap"} |-> IF x = "values" THEN arrays["values"] ELSE <<>>]
  IN BuildCommit(newPriorityQueue(a0, "heap", "values", cmp, factory), {"values"})

BuildNext ==
  \/ \E cmp \in {"default", "min", "throws"}, factory \in Factories : NewHeap(cmp, factory)
  \/ \E cmp \in {"default", "min", "throws"}, factory \in Factories :
       NewPriorityQueue(cmp, factory)
  \/ \E k \in DOMAIN heaps, node \in Items : HeapPush(k, node)
  \/ \E k \in DOMAIN heaps, node \in Items : PQPush(k, node)

SpecBuild == BuildInit /\ [][BuildNext]_vars

\* Sift-down as C38 describes it, on the array arr from index i under the
\* comparator cmp: the best child is the left one unless the right one
\* strictly outranks it; the node is swapped with its best child only when
\* it compares < 0 with it, and the sift goes on from there.
RECURSIVE SiftDown(_, _, _)
SiftDown(arr, cmp, i) ==
  LET l == 2 * i + 1
      r == 2 * i + 2
      outranks(x, y) == compareFn(cmp, arr[x + 1], arr[y + 1]).val > 0
      child == IF r < Len(arr) /\ outranks(r, l) THEN r ELSE l
      swapped == [arr EXCEPT ![i + 1] = arr[child + 1], ![child + 1] = arr[i + 1]]
  IN IF l < Len(arr) /\ compareFn(cmp, arr[i + 1], arr[child + 1]).val < 0
     THEN SiftDown(swapped, cmp, child)
     ELSE arr

\* Sift-up as C38 describes it: the element at i is swapped with its parent
\* at floor((i - 1) / 2) while it compares > 0 with it.
RECURSIVE SiftUp(_, _, _)
SiftUp(arr, cmp, i) ==
  LET p == (i - 1) \div 2
      swapped == [arr EXCEPT ![i + 1] = arr[p + 1], ![p + 1] = arr[i + 1]]
  IN IF i > 0 /\ compareFn(cmp, arr[i + 1], arr[p + 1]).val > 0
     THEN SiftUp(swapped, cmp, p)
     ELSE arr

\* C38: sift-down swaps a node with a child only when compare(node, child)
\* < 0, with the left child when the two children tie, so a node that ties
\* with its best child is not moved; sift-up swaps only while
\* compare(child, parent) > 0, the parent at floor((i - 1) / 2), so a pushed
\* element that ties with its parent stays below it.  Stated of #heapifyDown
\* and #heapifyUp of Heap and of PriorityQueue on every array of up to
\* MaxHeap items, from every index, under the default comparator on
\* numbers, (a, b) => b - a, and a comparator under which different items
\* tie.
C38_Sift ==
  \A cmp \in {"default", "min", "coarse"}, i \in 0..(Len(ghost) - 1) :
    (cmp = "default" => Range(ghost) \subseteq Numbers)
    => LET a == [x \in {"h"} |-> ghost]
           hp == [class |-> "Heap", nodes |-> "h", compareFn |-> cmp, factory |-> "none"]
           pq == [class |-> "PriorityQueue", heap |-> "h", compareFn |-> cmp,
                  factory |-> "none"]
           p == (i - 1) \div 2
       IN /\ heapifyDown(a, hp, i).threw = "none"
          /\ heapifyDown(a, hp, i).a["h"] = SiftDown(ghost, cmp, i)
          /\ pqHeapifyDown(a, pq, i).a["h"] = SiftDown(ghost, cmp, i)
          /\ heapifyUp(a, hp, i).threw = "none"
          /\ heapifyUp(a, hp, i).a["h"] = SiftUp(ghost, cmp, i)
          /\ pqHeapifyUp(a, pq, i).a["h"] = SiftUp(ghost, cmp, i)
          /\ (i > 0 /\ compareFn(cmp, ghost[i + 1], ghost[p + 1]).val = 0)
             => heapifyUp(a, hp, i).a["h"] = ghost
          /\ \A c \in {2 * i + 1, 2 * i + 2} :
               (c < Len(ghost) /\ heapifyDown(a, hp, i).a["h"][i + 1] = ghost[c + 1]
                  /\ ghost[c + 1] # ghost[i + 1])
               => compareFn(cmp, ghost[i + 1], ghost[c + 1]).val < 0

\* an array of MaxHeap items whose first is outranked by its two children,
\* which tie with each other and are different items: sift-down from the
\* root takes the left one up; and whose last item ties with its parent
C38_Witness ==
  LET a == [x \in {"h"} |-> ghost]
      hp == [class |-> "Heap", nodes |-> "h", compareFn |-> "coarse", factory |-> "none"]
  IN /\ Len(ghost) = MaxHeap
     /\ ghost[1] = 1 /\ ghost[2] = 2 /\ ghost[3] = 3
     /\ heapifyDown(a, hp, 0).a["h"][1] = 2
     /\ ghost[MaxHeap] # ghost[MaxHeap \div 2]
     /\ compareFn("coarse", ghost[MaxHeap], ghost[MaxHeap \div 2]).val = 0
     /\ heapifyUp(a, hp, MaxHeap - 1).a["h"] = ghost
     /\ last.op = "new"

C27_Construct ==
  last.op = "init"
  => \A cmp \in {"default", "min", "throws"}, factory \in Factories :
       LET a0 == [x \in {"values", "heap"} |-> IF x = "values" THEN arrays["values"] ELSE <<>>]
           r1 == newHeap(a0, "heap", "values", cmp, factory)
           r2 == newPriorityQueue(a0, "heap", "values", cmp, factory)
       IN /\ r1.threw = r2.threw
          /\ r1.threw = "none" => r1.a[r1.h.nodes] = r2.a[r2.h.heap]

DefaultPush(k) ==
  /\ heaps[k].compareFn = "default"
  /\ last'.op = "push"
  /\ HeapPush(k, NotNumber) \/ PQPush(k, NotNumber)

DefaultNew ==
  /\ NotNumber \in Range(ghost)
  /\ \E factory \in Factories : NewHeap("default", factory) \/ NewPriorityQueue("default", factory)

CallerSet(v) ==
  /\ arrays["caller"] # <<>>
  /\ HeapCommit(AOk([arrays EXCEPT !["caller"][1] = v], Null), "caller")

CallerPush(v) ==
  HeapCommit(AOk([arrays EXCEPT !["caller"] = Append(@, v)], Null), "caller")

CallerClear ==
  HeapCommit(AOk([arrays EXCEPT !["caller"] = <<>>], Null), "caller")

CallerWrites ==
  \/ \E v \in Vals : CallerSet(v)
  \/ \E v \in Vals : CallerPush(v)
  \/ CallerClear

ShareInit ==
  \E init \in ArraysOf(Vals, MaxArr), cmp \in {"default", "min"} :
    LET a0 == [x \in {"caller", "heap"} |-> IF x = "caller" THEN init ELSE <<>>]
        r1 == newHeap(a0, "heap", "caller", cmp, "none")
        r2 == newPriorityQueue(r1.a, "pq", "caller", cmp, "none")
    IN /\ arrays = r2.a
       /\ heaps = [x \in {"heap", "pq"} |-> IF x = "heap" THEN r1.h ELSE r2.h]
       /\ NoLists

ShareNext ==
  \/ \E k \in DOMAIN heaps, node \in Vals : HeapPush(k, node)
  \/ \E k \in DOMAIN heaps, node \in Vals : HeapReplace(k, node)
  \/ \E k \in DOMAIN heaps : HeapPop(k)
  \/ \E k \in DOMAIN heaps : HeapClear(k)
  \/ \E k \in DOMAIN heaps, node \in Vals : PQPush(k, node)
  \/ \E k \in DOMAIN heaps, node \in Vals : PQReplace(k, node)
  \/ \E k \in DOMAIN heaps : PQPop(k)
  \/ \E k \in DOMAIN heaps : PQClear(k)
  \/ \E v \in Vals : CallerSet(v)
  \/ \E v \in Vals : CallerPush(v)
  \/ CallerClear

SpecShare == ShareInit /\ [][ShareNext]_vars

\* push, pop, replace or clear is called on container k
Calls(k) ==
  \/ \E node \in Vals : HeapPush(k, node) \/ HeapReplace(k, node)
  \/ HeapPop(k) \/ HeapClear(k)
  \/ \E node \in Vals : PQPush(k, node) \/ PQReplace(k, node)
  \/ PQPop(k) \/ PQClear(k)

\* a call on container k, or a change the caller makes to its array, leaves
\* everything else as it was
Owns(k) ==
  /\ Calls(k) => /\ arrays'["caller"] = arrays["caller"]
                 /\ \A j \in DOMAIN heaps \ {k} : Contents(j)' = Contents(j)
  /\ CallerWrites => Contents(k)' = Contents(k)

====
